---- MODULE Spec2Model ----
(***************************************************************************)
(* A model of the Axiom learning-platform backend: the account manager     *)
(* (AxiomAuthManager), the course manager (AxiomCourseManager), the        *)
(* integrated manager's cascade (AxiomUserManager.delete_course) and the   *)
(* content manager (AxiomContentManager), over one shared document store.  *)
(*                                                                         *)
(* Strings the code inspects character by character (passwords, e-mail     *)
(* addresses, usernames) are sequences of one-character strings.  Ids      *)
(* (ObjectId) and tokens (uuid4) are fresh values drawn from counters.     *)
(* datetime.now() is the variable now, advanced by Tick.                   *)
(***************************************************************************)
EXTENDS Integers, Sequences, FiniteSets, TLC

VARIABLES
    users,            \* db['users']:           _id -> document
    courses,          \* db['courses']:         _id -> document
    modules,          \* db['modules']:         _id -> document
    flashcard_decks,  \* db['flashcard_decks']: _id -> document
    quizzes,          \* db['quizzes']:         _id -> document
    video_chapters,   \* db['video_chapters']:  _id -> document
    nextId,           \* per collection, the next fresh ObjectId
    nextToken,        \* the next fresh uuid4 of a password reset
    now,              \* datetime.now().timestamp()
    last,             \* the latest call: its name, arguments and return value
    streak,           \* history: the run of "Invalid password" logins just made
    usedTokens,       \* history: reset tokens a successful reset_password consumed
    expiredTokens,    \* history: reset tokens a reset_password refused as expired
    calls,            \* per caller, the call it is in the middle of
    notes             \* collection notes: id -> document

vars == <<users, courses, modules, flashcard_decks, quizzes, video_chapters,
          nextId, nextToken, now, last, streak, usedTokens, expiredTokens, calls,
          notes>>

\* Python's None where the value read is an id, a token or a time.
Null == -1

---------------------------------------------------------------------------
(* Bounds of the model.                                                    *)

MaxUsers == 2
MaxTokens == 2
MaxTicks == 2
MaxPwLen == 8
MaxCourses == 2
MaxModules == 2
MaxDecks == 1
MaxQuizzes == 1
MaxChapters == 1
MaxCallers == 2
MaxNotes == 2

---------------------------------------------------------------------------
(* Program constants.                                                      *)

PasswordMinLength == 8
LockoutThreshold == 5
TokenTTL == 86400

\* The messages the calls return, as the code spells them.
Msg ==
    [TooShort |-> "Password must be at least 8 characters long",
     NoUpper |-> "Password must contain at least one uppercase letter",
     NoLower |-> "Password must contain at least one lowercase letter",
     NoDigit |-> "Password must contain at least one digit",
     NoSpecial |-> "Password must contain at least one special character",
     PasswordValid |-> "Password is valid",
     FieldsRequired |-> "All fields are required",
     InvalidEmail |-> "Invalid email format",
     UsernameTaken |-> "Username already taken",
     EmailRegistered |-> "Email already registered",
     NoSuchUser |-> "Invalid username or email",
     Disabled |-> "Account is disabled",
     Locked |-> "Account temporarily locked due to too many failed login attempts",
     InvalidPassword |-> "Invalid password",
     ResetSent |-> "If a user with this email exists, a password reset link has been sent",
     ResetRequested |-> "Password reset requested",
     InvalidResetToken |-> "Invalid reset token",
     ResetExpired |-> "Password reset token has expired",
     ResetDone |-> "Password reset successfully",
     DatabaseError |-> "Database error",
     UserNotFound |-> "User not found",
     CourseNotFound |-> "Course not found",
     ModuleNotFound |-> "Module not found",
     AssociatedCourseNotFound |-> "Associated course not found",
     NoValidFields |-> "No valid fields to update",
     NoPermissionUpdateCourse |-> "You don't have permission to update this course",
     NoPermissionDeleteCourse |-> "You don't have permission to delete this course",
     NoPermissionAddModule |-> "You don't have permission to add modules to this course",
     NoPermissionUpdateModule |-> "You don't have permission to update this module",
     NoPermissionDeleteModule |-> "You don't have permission to delete this module",
     NoPermissionModifyModule |-> "You don't have permission to modify this module",
     DeckNotFound |-> "Flashcard deck not found",
     QuizNotFound |-> "Quiz not found",
     ChapterNotFound |-> "Video chapter not found",
     CourseUpdated |-> "Course updated successfully",
     CourseDeleted |-> "Course and modules deleted successfully",
     CourseAndContentDeleted |-> "Course and all its content deleted successfully",
     ModuleUpdated |-> "Module updated successfully",
     ModuleDeleted |-> "Module deleted successfully",
     DeckUpdated |-> "Flashcard deck updated successfully",
     DeckDeleted |-> "Flashcard deck deleted successfully",
     QuizUpdated |-> "Quiz updated successfully",
     QuizDeleted |-> "Quiz deleted successfully",
     ChapterUpdated |-> "Video chapter updated successfully",
     ChapterDeleted |-> "Video chapter deleted successfully",
     AccountDeleted |-> "Account deleted successfully",
     NoPermissionAddContent |-> "You don't have permission to add content to this module",
     TypeError |-> "TypeError: 'NoneType' object is not subscriptable",
     ErrorDeletingAccount |-> "Error deleting account",
     AdminNotFound |-> "Admin user not found",
     AdminRequired |-> "Permission denied: Admin privileges required",
     PasswordUpdated |-> "Password updated successfully",
     InvalidVerificationToken |-> "Invalid verification token",
     VerificationExpired |-> "Verification token has expired",
     EmailVerified |-> "Email verified successfully",
     CurrentPasswordIncorrect |-> "Current password is incorrect",
     NoActiveReset |-> "No active password reset to cancel",
     ResetCanceled |-> "Password reset process canceled successfully",
     Deactivated |->
        "Account deactivated successfully. You can contact support to reactivate it."]

---------------------------------------------------------------------------
(* Character classes of the regular expressions, over ASCII.               *)

Upper == {"A","B","C","D","E","F","G","H","I","J","K","L","M",
          "N","O","P","Q","R","S","T","U","V","W","X","Y","Z"}
Lower == {"a","b","c","d","e","f","g","h","i","j","k","l","m",
          "n","o","p","q","r","s","t","u","v","w","x","y","z"}
Digit == {"0","1","2","3","4","5","6","7","8","9"}
\* [!@#$%^&*(),.?":{}|<>]
Special == {"!","@","#","$","%","^","&","*","(",")",",",".","?","\"",
            ":","{","}","|","<",">"}
\* \w
Word == Upper \cup Lower \cup Digit \cup {"_"}
\* [\w\.-]
EmailChar == Word \cup {".", "-"}

HasChar(s, class) == \E i \in 1..Len(s) : s[i] \in class
AllChars(s, lo, hi, class) == \A i \in lo..hi : s[i] \in class

Result(ok, msg) == [ok |-> ok, msg |-> msg]

\* re.match(r'^[\w\.-]+@[\w\.-]+\.\w+$', email)
_validate_email(email) ==
    \E i \in 2..Len(email) :
        /\ email[i] = "@"
        /\ AllChars(email, 1, i - 1, EmailChar)
        /\ \E j \in (i + 2)..(Len(email) - 1) :
              /\ email[j] = "."
              /\ AllChars(email, i + 1, j - 1, EmailChar)
              /\ AllChars(email, j + 1, Len(email), Word)

\* A mutant of _validate_password: the length check accepts 7 characters.
ValidatePasswordShortOk(password) ==
    IF Len(password) < PasswordMinLength - 1 THEN Result(FALSE, Msg.TooShort)
    ELSE IF ~HasChar(password, Upper) THEN Result(FALSE, Msg.NoUpper)
    ELSE IF ~HasChar(password, Lower) THEN Result(FALSE, Msg.NoLower)
    ELSE IF ~HasChar(password, Digit) THEN Result(FALSE, Msg.NoDigit)
    ELSE IF ~HasChar(password, Special) THEN Result(FALSE, Msg.NoSpecial)
    ELSE Result(TRUE, Msg.PasswordValid)

_validate_password(password) ==
    IF Len(password) < PasswordMinLength THEN Result(FALSE, Msg.TooShort)
    ELSE IF ~HasChar(password, Upper) THEN Result(FALSE, Msg.NoUpper)
    ELSE IF ~HasChar(password, Lower) THEN Result(FALSE, Msg.NoLower)
    ELSE IF ~HasChar(password, Digit) THEN Result(FALSE, Msg.NoDigit)
    ELSE IF ~HasChar(password, Special) THEN Result(FALSE, Msg.NoSpecial)
    ELSE Result(TRUE, Msg.PasswordValid)

\* bcrypt.hashpw(password, salt): the salt is kept in the hash.
hashpw(password, salt) == [salt |-> salt, digest |-> <<salt, password>>]
\* bcrypt.checkpw(password, hash): hashes again with the hash's salt.
checkpw(password, hash) == hashpw(password, hash.salt) = hash
\* bcrypt.gensalt(): a fresh salt, named after the event that draws it.
gensalt(event, n) == <<event, n>>

---------------------------------------------------------------------------
(* Strings.                                                                *)

Str ==
    [short1A |-> <<"s","h","o","r","t","1","A","!">>,
     shrt1A |-> <<"s","h","r","t","1","A","!">>,
     longenough1 |-> <<"l","o","n","g","e","n","o","u","g","h","1","!">>,
     LONGENOUGH1 |-> <<"L","O","N","G","E","N","O","U","G","H","1","!">>,
     LongEnoughBangBang |-> <<"L","o","n","g","E","n","o","u","g","h","!","!">>,
     LongEnough1 |-> <<"L","o","n","g","E","n","o","u","g","h","1">>,
     LongEnough1Bang |-> <<"L","o","n","g","E","n","o","u","g","h","1","!">>,
     LongEnough1Underscore |-> <<"L","o","n","g","E","n","o","u","g","h","1","_">>,
     Other1Pass |-> <<"O","t","h","e","r","1","?","p","w">>,
     weak |-> <<"w","e","a","k">>,
     empty |-> <<>>,
     al |-> <<"a","l">>,
     a_at_c_d |-> <<"a","@","c",".","d">>,
     b_at_c_d |-> <<"b","@","c",".","d">>,
     bad |-> <<"b","a","d">>,
     T |-> <<"T">>]

---------------------------------------------------------------------------
(* The record of the latest call.                                          *)

Resp(op, args, ok, msg, kind, data) ==
    [op |-> op, args |-> args, ok |-> ok, msg |-> msg, kind |-> kind, data |-> data]

\* The data of a return value that carries none.
NoData == [uid |-> Null]
NoCall == Resp("none", NoData, FALSE, "", "none", NoData)
\* No run: the latest call was no login of an existing account.
NoStreak == [uid |-> Null, n |-> 0, reset_from |-> Null]

\* The callers, and the frame of a caller that is between two calls.
Callers == 1..MaxCallers
Idle == [pc |-> "idle"]
NoCalls == [p \in Callers |-> Idle]

EmptyStore ==
    /\ calls = NoCalls
    /\ notes = <<>>
    /\ users = <<>>
    /\ courses = <<>>
    /\ modules = <<>>
    /\ flashcard_decks = <<>>
    /\ quizzes = <<>>
    /\ video_chapters = <<>>
    /\ nextId = [users |-> 1, courses |-> 1, modules |-> 1, flashcard_decks |-> 1,
                 quizzes |-> 1, video_chapters |-> 1]
    /\ nextToken = 1
    /\ now = 0
    /\ streak = NoStreak
    /\ usedTokens = {}
    /\ expiredTokens = {}

contentVars == <<courses, modules, flashcard_decks, quizzes, video_chapters>>

---------------------------------------------------------------------------
(* The account manager, AxiomAuthManager.  A call is one atomic step.      *)

\* find_one over several matching documents returns one of them; the store
\* promises no order.
ByUsername(username) == {u \in DOMAIN users : users[u].username = username}
ByEmail(email) == {u \in DOMAIN users : users[u].email = email}
ByLogin(username_or_email) == ByUsername(username_or_email) \cup ByEmail(username_or_email)
ByResetToken(reset_token) ==
    {u \in DOMAIN users : users[u].security.password_reset_token = reset_token}

\* The document register_user inserts.  Fields that no call of the model reads
\* (names, profile, preferences, study_stats and the time stamps created_at,
\* last_login, last_password_change) are left out.
NewUser(username, email, password, salt, uid) ==
    [username |-> username,
     email |-> email,
     password_hash |-> hashpw(password, salt),
     is_admin |-> FALSE,
     is_active |-> TRUE,
     is_verified |-> FALSE,
     last_login |-> Null,
     verification_token |-> <<"verify", uid>>,
     verification_token_expiry |-> now + TokenTTL,
     security |-> [password_reset_token |-> Null,
                   password_reset_expiry |-> Null,
                   failed_login_attempts |-> 0]]

RegisterArgs(username, email, password, first_name, last_name) ==
    [username |-> username, email |-> email, password |-> password,
     first_name |-> first_name, last_name |-> last_name]

\* A mutant of register_user_call: the e-mail pre-check is missing.
RegisterNoEmailCheck(username, email, password, first_name, last_name) ==
    LET args == RegisterArgs(username, email, password, first_name, last_name)
        Fail(msg) == /\ last' = Resp("register_user", args, FALSE, msg, "str", NoData)
                     /\ UNCHANGED <<users, nextId>>
        pv == _validate_password(password)
    IN
    IF username = <<>> \/ email = <<>> \/ password = <<>>
       \/ first_name = <<>> \/ last_name = <<>> THEN Fail(Msg.FieldsRequired)
    ELSE IF ~_validate_email(email) THEN Fail(Msg.InvalidEmail)
    ELSE IF ~pv.ok THEN Fail(pv.msg)
    ELSE IF ByUsername(username) # {} THEN Fail(Msg.UsernameTaken)
    \* insert_one: the unique indexes on username and email refuse a duplicate.
    ELSE IF ByUsername(username) # {} \/ ByEmail(email) # {} THEN Fail(Msg.DatabaseError)
    ELSE
        /\ nextId.users <= MaxUsers
        /\ LET uid == nextId.users
                salt == gensalt("register_user", uid)
           IN
           /\ users' = (uid :> NewUser(username, email, password, salt, uid)) @@ users
           /\ nextId' = [nextId EXCEPT !.users = uid + 1]
           /\ last' = Resp("register_user", args, TRUE, "", "dict",
                           [id |-> uid, username |-> username, email |-> email,
                            is_admin |-> FALSE,
                            verification_token |-> <<"verify", uid>>])

register_user_call(username, email, password, first_name, last_name) ==
    LET args == RegisterArgs(username, email, password, first_name, last_name)
        Fail(msg) == /\ last' = Resp("register_user", args, FALSE, msg, "str", NoData)
                     /\ UNCHANGED <<users, nextId>>
        pv == _validate_password(password)
    IN
    IF username = <<>> \/ email = <<>> \/ password = <<>>
       \/ first_name = <<>> \/ last_name = <<>> THEN Fail(Msg.FieldsRequired)
    ELSE IF ~_validate_email(email) THEN Fail(Msg.InvalidEmail)
    ELSE IF ~pv.ok THEN Fail(pv.msg)
    ELSE IF ByUsername(username) # {} THEN Fail(Msg.UsernameTaken)
    ELSE IF ByEmail(email) # {} THEN Fail(Msg.EmailRegistered)
    \* insert_one: the unique indexes on username and email refuse a duplicate.
    ELSE IF ByUsername(username) # {} \/ ByEmail(email) # {} THEN Fail(Msg.DatabaseError)
    ELSE
        /\ nextId.users <= MaxUsers
        /\ LET uid == nextId.users
                salt == gensalt("register_user", uid)
           IN
           /\ users' = (uid :> NewUser(username, email, password, salt, uid)) @@ users
           /\ nextId' = [nextId EXCEPT !.users = uid + 1]
           /\ last' = Resp("register_user", args, TRUE, "", "dict",
                           [id |-> uid, username |-> username, email |-> email,
                            is_admin |-> FALSE,
                            verification_token |-> <<"verify", uid>>])

register_user(username, email, password, first_name, last_name) ==
    /\ register_user_call(username, email, password, first_name, last_name)
    /\ streak' = NoStreak
    /\ UNCHANGED <<contentVars, nextToken, now, notes, usedTokens, expiredTokens, calls>>

\* register_user as two steps of caller p, for callers that run side by side:
\* the validation and the two find_one pre-checks, then insert_one.  What
\* register_user_checks returns is the refusal of the first step, or ok.
register_user_checks(a) ==
    IF a.username = <<>> \/ a.email = <<>> \/ a.password = <<>>
       \/ a.first_name = <<>> \/ a.last_name = <<>> THEN Result(FALSE, Msg.FieldsRequired)
    ELSE IF ~_validate_email(a.email) THEN Result(FALSE, Msg.InvalidEmail)
    ELSE IF ~_validate_password(a.password).ok THEN _validate_password(a.password)
    ELSE IF ByUsername(a.username) # {} THEN Result(FALSE, Msg.UsernameTaken)
    ELSE IF ByEmail(a.email) # {} THEN Result(FALSE, Msg.EmailRegistered)
    ELSE Result(TRUE, "")

register_user_precheck(p, username, email, password, first_name, last_name) ==
    LET args == RegisterArgs(username, email, password, first_name, last_name)
        checked == register_user_checks(args)
    IN
    /\ calls[p] = Idle
    /\ IF ~checked.ok THEN
          /\ last' = Resp("register_user", args, FALSE, checked.msg, "str", [caller |-> p])
          /\ UNCHANGED calls
       ELSE
          /\ calls' = [calls EXCEPT ![p] = [pc |-> "insert_one", args |-> args]]
          /\ UNCHANGED last
    /\ UNCHANGED <<users, contentVars, nextId, nextToken, now, notes, streak, usedTokens,
                   expiredTokens>>

\* A mutant of insert_one_user: the collection has no unique index.
InsertWithoutUniqueIndex(p) ==
    LET args == calls[p].args
        uid == nextId.users
        salt == gensalt("register_user", uid)
    IN
    /\ uid <= MaxUsers
    /\ users' = (uid :> NewUser(args.username, args.email, args.password, salt, uid))
                @@ users
    /\ nextId' = [nextId EXCEPT !.users = uid + 1]
    /\ last' = Resp("register_user", args, TRUE, "", "dict",
                    [id |-> uid, username |-> args.username, email |-> args.email,
                     is_admin |-> FALSE, verification_token |-> <<"verify", uid>>,
                     caller |-> p])

\* users.insert_one(new_user) of caller p: the unique indexes on username and
\* on email raise for a duplicate, and register_user returns the exception
\* as "Database error: ...".
insert_one_user(p) ==
    LET args == calls[p].args
        uid == nextId.users
        salt == gensalt("register_user", uid)
    IN
    IF ByUsername(args.username) # {} \/ ByEmail(args.email) # {} THEN
        /\ last' = Resp("register_user", args, FALSE, Msg.DatabaseError, "str",
                        [caller |-> p])
        /\ UNCHANGED <<users, nextId>>
    ELSE
        /\ uid <= MaxUsers
        /\ users' = (uid :> NewUser(args.username, args.email, args.password, salt, uid))
                    @@ users
        /\ nextId' = [nextId EXCEPT !.users = uid + 1]
        /\ last' = Resp("register_user", args, TRUE, "", "dict",
                        [id |-> uid, username |-> args.username, email |-> args.email,
                         is_admin |-> FALSE, verification_token |-> <<"verify", uid>>,
                         caller |-> p])

register_user_insert(p) ==
    /\ calls[p].pc = "insert_one"
    /\ insert_one_user(p)
    /\ calls' = [calls EXCEPT ![p] = Idle]
    /\ UNCHANGED <<contentVars, nextToken, now, notes, streak, usedTokens, expiredTokens>>

LoginArgs(username_or_email, password) ==
    [username_or_email |-> username_or_email, password |-> password]

\* A mutant of login_found: the password is compared before the lockout check.
LoginPasswordFirst(u, username_or_email, password) ==
    LET user == users[u]
        args == LoginArgs(username_or_email, password)
        seen == [uid |-> u, pre |-> user.security.failed_login_attempts]
    IN
    IF ~user.is_active THEN
        /\ last' = Resp("login", args, FALSE, Msg.Disabled, "str", seen)
        /\ UNCHANGED users
    ELSE IF checkpw(password, user.password_hash) THEN
        /\ users' = [users EXCEPT ![u].security.failed_login_attempts = 0]
        /\ last' = Resp("login", args, TRUE, "", "dict", seen)
    ELSE IF user.security.failed_login_attempts >= LockoutThreshold THEN
        /\ last' = Resp("login", args, FALSE, Msg.Locked, "str", seen)
        /\ UNCHANGED users
    ELSE
        /\ users' = [users EXCEPT ![u].security.failed_login_attempts = @ + 1]
        /\ last' = Resp("login", args, FALSE, Msg.InvalidPassword, "str", seen)

\* A mutant of login_found: a successful login leaves the counter alone.
LoginNoCounterReset(u, username_or_email, password) ==
    LET user == users[u]
        args == LoginArgs(username_or_email, password)
        seen == [uid |-> u, pre |-> user.security.failed_login_attempts]
    IN
    IF ~user.is_active THEN
        /\ last' = Resp("login", args, FALSE, Msg.Disabled, "str", seen)
        /\ UNCHANGED users
    ELSE IF user.security.failed_login_attempts >= LockoutThreshold THEN
        /\ last' = Resp("login", args, FALSE, Msg.Locked, "str", seen)
        /\ UNCHANGED users
    ELSE IF checkpw(password, user.password_hash) THEN
        /\ users' = users
        /\ last' = Resp("login", args, TRUE, "", "dict", seen)
    ELSE
        /\ users' = [users EXCEPT ![u].security.failed_login_attempts = @ + 1]
        /\ last' = Resp("login", args, FALSE, Msg.InvalidPassword, "str", seen)

\* A mutant of login_found: the active flag is not looked at.
LoginIgnoresActive(u, username_or_email, password) ==
    LET user == users[u]
        args == LoginArgs(username_or_email, password)
        seen == [uid |-> u, pre |-> user.security.failed_login_attempts]
    IN
    IF user.security.failed_login_attempts >= LockoutThreshold THEN
        /\ last' = Resp("login", args, FALSE, Msg.Locked, "str", seen)
        /\ UNCHANGED users
    ELSE IF checkpw(password, user.password_hash) THEN
        /\ users' = [users EXCEPT ![u].security.failed_login_attempts = 0]
        /\ last' = Resp("login", args, TRUE, "", "dict", seen)
    ELSE
        /\ users' = [users EXCEPT ![u].security.failed_login_attempts = @ + 1]
        /\ last' = Resp("login", args, FALSE, Msg.InvalidPassword, "str", seen)

\* A mutant of login_found: a login refused for the lockout is counted too.
LoginCountsWhenLocked(u, username_or_email, password) ==
    LET user == users[u]
        args == LoginArgs(username_or_email, password)
        seen == [uid |-> u, pre |-> user.security.failed_login_attempts]
    IN
    IF ~user.is_active THEN
        /\ last' = Resp("login", args, FALSE, Msg.Disabled, "str", seen)
        /\ UNCHANGED users
    ELSE IF user.security.failed_login_attempts >= LockoutThreshold THEN
        /\ last' = Resp("login", args, FALSE, Msg.Locked, "str", seen)
        /\ users' = [users EXCEPT ![u].security.failed_login_attempts =
                                     IF @ < LockoutThreshold + 1 THEN @ + 1 ELSE @]
    ELSE IF checkpw(password, user.password_hash) THEN
        /\ users' = [users EXCEPT ![u].security.failed_login_attempts = 0]
        /\ last' = Resp("login", args, TRUE, "", "dict", seen)
    ELSE
        /\ users' = [users EXCEPT ![u].security.failed_login_attempts = @ + 1]
        /\ last' = Resp("login", args, FALSE, Msg.InvalidPassword, "str", seen)

\* A mutant of login_found: the lockout is looked at before the active flag.
LoginLockoutBeforeActive(u, username_or_email, password) ==
    LET user == users[u]
        args == LoginArgs(username_or_email, password)
        seen == [uid |-> u, pre |-> user.security.failed_login_attempts]
    IN
    IF user.security.failed_login_attempts >= LockoutThreshold THEN
        /\ last' = Resp("login", args, FALSE, Msg.Locked, "str", seen)
        /\ UNCHANGED users
    ELSE IF ~user.is_active THEN
        /\ last' = Resp("login", args, FALSE, Msg.Disabled, "str", seen)
        /\ UNCHANGED users
    ELSE IF checkpw(password, user.password_hash) THEN
        /\ users' = [users EXCEPT ![u].security.failed_login_attempts = 0,
                                  ![u].last_login = now]
        /\ last' = Resp("login", args, TRUE, "", "dict", seen)
    ELSE
        /\ users' = [users EXCEPT ![u].security.failed_login_attempts = @ + 1]
        /\ last' = Resp("login", args, FALSE, Msg.InvalidPassword, "str", seen)

\* login once find_one has returned the document of user u.
login_found(u, username_or_email, password) ==
    LET user == users[u]
        args == LoginArgs(username_or_email, password)
        seen == [uid |-> u, pre |-> user.security.failed_login_attempts]
    IN
    IF ~user.is_active THEN
        /\ last' = Resp("login", args, FALSE, Msg.Disabled, "str", seen)
        /\ UNCHANGED users
    ELSE IF user.security.failed_login_attempts >= LockoutThreshold THEN
        /\ last' = Resp("login", args, FALSE, Msg.Locked, "str", seen)
        /\ UNCHANGED users
    ELSE IF checkpw(password, user.password_hash) THEN
        /\ users' = [users EXCEPT ![u].security.failed_login_attempts = 0,
                                  ![u].last_login = now]
        /\ last' = Resp("login", args, TRUE, "", "dict", seen)
    ELSE
        /\ users' = [users EXCEPT ![u].security.failed_login_attempts = @ + 1]
        /\ last' = Resp("login", args, FALSE, Msg.InvalidPassword, "str", seen)

login_call(username_or_email, password) ==
    IF ByLogin(username_or_email) = {} THEN
        /\ last' = Resp("login", LoginArgs(username_or_email, password), FALSE,
                        Msg.NoSuchUser, "str", NoData)
        /\ UNCHANGED users
    ELSE
        \E u \in ByLogin(username_or_email) : login_found(u, username_or_email, password)

\* The run of calls just made on one account: n logins in a row that ended in
\* "Invalid password", right after a successful login that overwrote the counter
\* value reset_from (Null: the run does not start at a successful login).  A
\* lockout refusal of the same account leaves the run as it is; any other call
\* ends it.
StreakAfterLogin ==
    IF last'.ok THEN
        [uid |-> last'.data.uid, n |-> 0, reset_from |-> last'.data.pre]
    ELSE IF last'.msg = Msg.InvalidPassword THEN
        IF streak.uid = last'.data.uid
        THEN [streak EXCEPT !.n = @ + 1]
        ELSE [uid |-> last'.data.uid, n |-> 1, reset_from |-> Null]
    ELSE IF last'.msg = Msg.Locked /\ last'.data.uid = streak.uid THEN streak
    ELSE NoStreak

login(username_or_email, password) ==
    /\ login_call(username_or_email, password)
    /\ streak' = StreakAfterLogin
    /\ UNCHANGED <<contentVars, nextId, nextToken, now, notes, usedTokens, expiredTokens, calls>>

\* login as two steps of caller p.  login_read is find_one and the checks made
\* on the document it returned; a call that passes them is left in the frame,
\* with the counter it read and the outcome of checkpw.  login_update is the
\* update_one that follows: $inc adds 1 to the counter the store holds at that
\* moment, $set overwrites it.  Steps of other callers may come between.
\* A mutant of login_read: the lockout is not looked at.
LoginReadNoLockout(p, username_or_email, password) ==
    LET args == LoginArgs(username_or_email, password) IN
    /\ calls[p] = Idle
    /\ streak' = NoStreak
    /\ UNCHANGED <<users, contentVars, nextId, nextToken, now, notes, usedTokens, expiredTokens>>
    /\ IF ByLogin(username_or_email) = {} THEN
           /\ last' = Resp("login", args, FALSE, Msg.NoSuchUser, "str", NoData)
           /\ UNCHANGED calls
       ELSE
           \E u \in ByLogin(username_or_email) :
               LET user == users[u]
                   seen == [uid |-> u, pre |-> user.security.failed_login_attempts]
               IN
               IF ~user.is_active THEN
                   /\ last' = Resp("login", args, FALSE, Msg.Disabled, "str", seen)
                   /\ UNCHANGED calls
               ELSE
                   /\ calls' = [calls EXCEPT ![p] =
                          [pc |-> "login_update", args |-> args, uid |-> u,
                           pre |-> user.security.failed_login_attempts,
                           matched |-> checkpw(password, user.password_hash)]]
                   /\ UNCHANGED last

login_read(p, username_or_email, password) ==
    LET args == LoginArgs(username_or_email, password) IN
    /\ calls[p] = Idle
    /\ streak' = NoStreak
    /\ UNCHANGED <<users, contentVars, nextId, nextToken, now, notes, usedTokens, expiredTokens>>
    /\ IF ByLogin(username_or_email) = {} THEN
           /\ last' = Resp("login", args, FALSE, Msg.NoSuchUser, "str", NoData)
           /\ UNCHANGED calls
       ELSE
           \E u \in ByLogin(username_or_email) :
               LET user == users[u]
                   seen == [uid |-> u, pre |-> user.security.failed_login_attempts]
               IN
               IF ~user.is_active THEN
                   /\ last' = Resp("login", args, FALSE, Msg.Disabled, "str", seen)
                   /\ UNCHANGED calls
               ELSE IF user.security.failed_login_attempts >= LockoutThreshold THEN
                   /\ last' = Resp("login", args, FALSE, Msg.Locked, "str", seen)
                   /\ UNCHANGED calls
               ELSE
                   /\ calls' = [calls EXCEPT ![p] =
                          [pc |-> "login_update", args |-> args, uid |-> u,
                           pre |-> user.security.failed_login_attempts,
                           matched |-> checkpw(password, user.password_hash)]]
                   /\ UNCHANGED last

login_update(p) ==
    LET f == calls[p] IN
    /\ f.pc = "login_update"
    /\ calls' = [calls EXCEPT ![p] = Idle]
    /\ streak' = NoStreak
    /\ UNCHANGED <<contentVars, nextId, nextToken, now, notes, usedTokens, expiredTokens>>
    /\ IF f.matched THEN
           /\ users' = IF f.uid \in DOMAIN users
                        THEN [users EXCEPT ![f.uid].security.failed_login_attempts = 0,
                                           ![f.uid].last_login = now]
                        ELSE users
           /\ last' = Resp("login", f.args, TRUE, "", "dict", [uid |-> f.uid, pre |-> f.pre])
       ELSE
           /\ users' = IF f.uid \in DOMAIN users
                        THEN [users EXCEPT ![f.uid].security.failed_login_attempts = @ + 1]
                        ELSE users
           /\ last' = Resp("login", f.args, FALSE, Msg.InvalidPassword, "str",
                           [uid |-> f.uid, pre |-> f.pre])

\* What request_password_reset returns when find_one found user (Null: no user).
\* A mutant of ResetResponse: the token is mailed, never returned.
ResetResponseGeneric(email, user, reset_token) ==
    Resp("request_password_reset", [email |-> email], TRUE, Msg.ResetSent, "str", NoData)

ResetResponse(email, user, reset_token) ==
    IF user = Null THEN
        Resp("request_password_reset", [email |-> email], TRUE, Msg.ResetSent, "str", NoData)
    ELSE IF ~users[user].is_active THEN
        Resp("request_password_reset", [email |-> email], TRUE, Msg.ResetSent, "str", NoData)
    ELSE
        Resp("request_password_reset", [email |-> email], TRUE, "", "dict",
             [message |-> Msg.ResetRequested, token |-> reset_token, user_id |-> user])

\* A mutant of request_password_reset_call: a pending token is not replaced.
RequestKeepsPendingToken(email) ==
    IF ByEmail(email) = {} THEN
        /\ last' = ResetResponse(email, Null, Null)
        /\ UNCHANGED <<users, nextToken>>
    ELSE
        \E u \in ByEmail(email) :
            IF ~users[u].is_active THEN
                /\ last' = ResetResponse(email, u, Null)
                /\ UNCHANGED <<users, nextToken>>
            ELSE
                /\ nextToken <= MaxTokens
                /\ users' = IF users[u].security.password_reset_token # Null THEN users
                            ELSE [users EXCEPT
                                    ![u].security.password_reset_token = nextToken,
                                    ![u].security.password_reset_expiry = now + TokenTTL]
                /\ nextToken' = nextToken + 1
                /\ last' = ResetResponse(email, u, nextToken)

\* A mutant of request_password_reset_call: a deactivated account is sent the
\* generic message and is given a token all the same.
RequestIssuesForInactive(email) ==
    IF ByEmail(email) = {} THEN
        /\ last' = ResetResponse(email, Null, Null)
        /\ UNCHANGED <<users, nextToken>>
    ELSE
        \E u \in ByEmail(email) :
            /\ nextToken <= MaxTokens
            /\ users' = [users EXCEPT
                   ![u].security.password_reset_token = nextToken,
                   ![u].security.password_reset_expiry = now + TokenTTL]
            /\ nextToken' = nextToken + 1
            /\ last' = ResetResponse(email, u, nextToken)

request_password_reset_call(email) ==
    IF ByEmail(email) = {} THEN
        /\ last' = ResetResponse(email, Null, Null)
        /\ UNCHANGED <<users, nextToken>>
    ELSE
        \E u \in ByEmail(email) :
            IF ~users[u].is_active THEN
                /\ last' = ResetResponse(email, u, Null)
                /\ UNCHANGED <<users, nextToken>>
            ELSE
                /\ nextToken <= MaxTokens
                /\ users' = [users EXCEPT
                       ![u].security.password_reset_token = nextToken,
                       ![u].security.password_reset_expiry = now + TokenTTL]
                /\ nextToken' = nextToken + 1
                /\ last' = ResetResponse(email, u, nextToken)

request_password_reset(email) ==
    /\ request_password_reset_call(email)
    /\ streak' = NoStreak
    /\ UNCHANGED <<contentVars, nextId, now, notes, usedTokens, expiredTokens, calls>>

\* refresh_password_reset returns self.request_password_reset(email).
refresh_password_reset(email) == request_password_reset(email)

ResetArgs(reset_token, new_password) ==
    [reset_token |-> reset_token, new_password |-> new_password]

\* A mutant of reset_password_found: the expiry is never looked at.
ResetIgnoresExpiry(u, reset_token, new_password) ==
    LET args == ResetArgs(reset_token, new_password)
        pv == _validate_password(new_password)
    IN
    IF ~pv.ok THEN
        /\ last' = Resp("reset_password", args, FALSE, pv.msg, "str", [uid |-> u])
        /\ UNCHANGED users
    ELSE
        LET salt == gensalt("reset_password", reset_token) IN
            /\ users' = [users EXCEPT
                   ![u].password_hash = hashpw(new_password, salt),
                   ![u].security = [password_reset_token |-> Null,
                                    password_reset_expiry |-> Null,
                                    failed_login_attempts |-> 0]]
            /\ last' = Resp("reset_password", args, TRUE, Msg.ResetDone, "str",
                            [uid |-> u, pre |-> users[u].security.failed_login_attempts])

\* A mutant of reset_password_found: the failed-attempt counter is left alone.
ResetKeepsCounter(u, reset_token, new_password) ==
    LET args == ResetArgs(reset_token, new_password)
        pv == _validate_password(new_password)
    IN
    IF now > users[u].security.password_reset_expiry THEN
        /\ last' = Resp("reset_password", args, FALSE, Msg.ResetExpired, "str", [uid |-> u])
        /\ UNCHANGED users
    ELSE IF ~pv.ok THEN
        /\ last' = Resp("reset_password", args, FALSE, pv.msg, "str", [uid |-> u])
        /\ UNCHANGED users
    ELSE
        LET salt == gensalt("reset_password", reset_token) IN
            /\ users' = [users EXCEPT
                   ![u].password_hash = hashpw(new_password, salt),
                   ![u].security.password_reset_token = Null,
                   ![u].security.password_reset_expiry = Null]
            /\ last' = Resp("reset_password", args, TRUE, Msg.ResetDone, "str",
                            [uid |-> u, pre |-> users[u].security.failed_login_attempts])

\* reset_password once find_one has returned the document of user u.  The data
\* of the response is not returned by the code: it records the user and the
\* counter the call found.
reset_password_found(u, reset_token, new_password) ==
    LET args == ResetArgs(reset_token, new_password)
        pv == _validate_password(new_password)
    IN
    IF now > users[u].security.password_reset_expiry THEN
        /\ last' = Resp("reset_password", args, FALSE, Msg.ResetExpired, "str", [uid |-> u])
        /\ UNCHANGED users
    ELSE IF ~pv.ok THEN
        /\ last' = Resp("reset_password", args, FALSE, pv.msg, "str", [uid |-> u])
        /\ UNCHANGED users
    ELSE
        LET salt == gensalt("reset_password", reset_token) IN
            /\ users' = [users EXCEPT
                   ![u].password_hash = hashpw(new_password, salt),
                   ![u].security = [password_reset_token |-> Null,
                                    password_reset_expiry |-> Null,
                                    failed_login_attempts |-> 0]]
            /\ last' = Resp("reset_password", args, TRUE, Msg.ResetDone, "str",
                            [uid |-> u, pre |-> users[u].security.failed_login_attempts])

reset_password_call(reset_token, new_password) ==
    IF ByResetToken(reset_token) = {} THEN
        /\ last' = Resp("reset_password", ResetArgs(reset_token, new_password), FALSE,
                        Msg.InvalidResetToken, "str", NoData)
        /\ UNCHANGED users
    ELSE
        \E u \in ByResetToken(reset_token) :
            reset_password_found(u, reset_token, new_password)

reset_password(reset_token, new_password) ==
    /\ reset_password_call(reset_token, new_password)
    /\ streak' = NoStreak
    /\ usedTokens' = IF last'.ok THEN usedTokens \cup {reset_token} ELSE usedTokens
    /\ expiredTokens' = IF last'.msg = Msg.ResetExpired
                        THEN expiredTokens \cup {reset_token} ELSE expiredTokens
    /\ UNCHANGED <<contentVars, nextId, nextToken, now, notes, calls>>

\* reset_password as two steps of caller p.  reset_password_lookup is find_one
\* by the token and the checks made on the document it returned;
\* reset_password_update is the update_one that follows, whose filter is the
\* _id of that document and nothing else.  The data of the response records
\* whether the token was still stored when the update ran.
reset_password_lookup(p, reset_token, new_password) ==
    LET args == ResetArgs(reset_token, new_password)
        pv == _validate_password(new_password)
    IN
    /\ calls[p] = Idle
    /\ streak' = NoStreak
    /\ UNCHANGED <<users, contentVars, nextId, nextToken, now, notes, usedTokens>>
    /\ IF ByResetToken(reset_token) = {} THEN
           /\ last' = Resp("reset_password", args, FALSE, Msg.InvalidResetToken,
                           "str", NoData)
           /\ UNCHANGED <<calls, expiredTokens>>
       ELSE
           \E u \in ByResetToken(reset_token) :
               IF now > users[u].security.password_reset_expiry THEN
                   /\ last' = Resp("reset_password", args, FALSE, Msg.ResetExpired,
                                   "str", [uid |-> u])
                   /\ expiredTokens' = expiredTokens \cup {reset_token}
                   /\ UNCHANGED calls
               ELSE IF ~pv.ok THEN
                   /\ last' = Resp("reset_password", args, FALSE, pv.msg, "str", [uid |-> u])
                   /\ UNCHANGED <<calls, expiredTokens>>
               ELSE
                   /\ calls' = [calls EXCEPT ![p] =
                          [pc |-> "reset_password_update", args |-> args, uid |-> u]]
                   /\ UNCHANGED <<last, expiredTokens>>

\* A variant of reset_password_update the code does not have: the filter of
\* update_one names the token too, and a call whose update matched nothing
\* returns the invalid-token error.
ResetUpdateFiltersToken(p) ==
    LET f == calls[p]
        held == /\ f.uid \in DOMAIN users
                /\ users[f.uid].security.password_reset_token = f.args.reset_token
    IN
    /\ f.pc = "reset_password_update"
    /\ calls' = [calls EXCEPT ![p] = Idle]
    /\ streak' = NoStreak
    /\ UNCHANGED <<contentVars, nextId, nextToken, now, notes, expiredTokens>>
    /\ IF held THEN
           /\ users' = [users EXCEPT
                  ![f.uid].password_hash =
                      hashpw(f.args.new_password, gensalt("reset_password", f.args.reset_token)),
                  ![f.uid].security = [password_reset_token |-> Null,
                                       password_reset_expiry |-> Null,
                                       failed_login_attempts |-> 0]]
           /\ usedTokens' = usedTokens \cup {f.args.reset_token}
           /\ last' = Resp("reset_password", f.args, TRUE, Msg.ResetDone, "str",
                           [uid |-> f.uid, held |-> held])
       ELSE
           /\ UNCHANGED <<users, usedTokens>>
           /\ last' = Resp("reset_password", f.args, FALSE, Msg.InvalidResetToken, "str",
                           [uid |-> f.uid, held |-> held])

reset_password_update(p) ==
    LET f == calls[p]
        held == /\ f.uid \in DOMAIN users
                /\ users[f.uid].security.password_reset_token = f.args.reset_token
    IN
    /\ f.pc = "reset_password_update"
    /\ calls' = [calls EXCEPT ![p] = Idle]
    /\ streak' = NoStreak
    /\ UNCHANGED <<contentVars, nextId, nextToken, now, notes, expiredTokens>>
    /\ users' = IF f.uid \in DOMAIN users
                 THEN [users EXCEPT
                         ![f.uid].password_hash =
                             hashpw(f.args.new_password,
                                    gensalt("reset_password", f.args.reset_token)),
                         ![f.uid].security = [password_reset_token |-> Null,
                                              password_reset_expiry |-> Null,
                                              failed_login_attempts |-> 0]]
                 ELSE users
    /\ usedTokens' = usedTokens \cup {f.args.reset_token}
    /\ last' = Resp("reset_password", f.args, TRUE, Msg.ResetDone, "str",
                    [uid |-> f.uid, held |-> held])

\* None in the field verification_token, whose other values are pairs.
NoneToken == <<"None", 0>>

ByVerificationToken(verification_token) ==
    {u \in DOMAIN users : users[u].verification_token = verification_token}

\* A mutant of verify_email_call: the token stays on the verified account.
VerifyKeepsToken(verification_token) ==
    LET args == [verification_token |-> verification_token] IN
    IF ByVerificationToken(verification_token) = {} THEN
        /\ last' = Resp("verify_email", args, FALSE, Msg.InvalidVerificationToken, "str",
                        NoData)
        /\ UNCHANGED users
    ELSE
        \E u \in ByVerificationToken(verification_token) :
            IF now > users[u].verification_token_expiry THEN
                /\ last' = Resp("verify_email", args, FALSE, Msg.VerificationExpired, "str",
                                NoData)
                /\ UNCHANGED users
            ELSE
                /\ users' = [users EXCEPT ![u].is_verified = TRUE]
                /\ last' = Resp("verify_email", args, TRUE, Msg.EmailVerified, "str", NoData)

verify_email_call(verification_token) ==
    LET args == [verification_token |-> verification_token] IN
    IF ByVerificationToken(verification_token) = {} THEN
        /\ last' = Resp("verify_email", args, FALSE, Msg.InvalidVerificationToken, "str",
                        NoData)
        /\ UNCHANGED users
    ELSE
        \E u \in ByVerificationToken(verification_token) :
            IF now > users[u].verification_token_expiry THEN
                /\ last' = Resp("verify_email", args, FALSE, Msg.VerificationExpired, "str",
                                NoData)
                /\ UNCHANGED users
            ELSE
                /\ users' = [users EXCEPT ![u].is_verified = TRUE,
                                          ![u].verification_token = NoneToken]
                /\ last' = Resp("verify_email", args, TRUE, Msg.EmailVerified, "str", NoData)

verify_email(verification_token) ==
    /\ verify_email_call(verification_token)
    /\ streak' = NoStreak
    /\ UNCHANGED <<contentVars, nextId, nextToken, now, notes, usedTokens, expiredTokens, calls>>

CancelArgs(user_id, current_password) ==
    [user_id |-> user_id, current_password |-> current_password]

\* A mutant of cancel_password_reset_call: the expiry is cleared, the token stays.
CancelKeepsToken(user_id, current_password) ==
    LET args == CancelArgs(user_id, current_password)
        Fail(msg) == /\ last' = Resp("cancel_password_reset", args, FALSE, msg, "str", NoData)
                     /\ UNCHANGED users
    IN
    IF user_id \notin DOMAIN users THEN Fail(Msg.UserNotFound)
    ELSE IF ~checkpw(current_password, users[user_id].password_hash)
         THEN Fail(Msg.CurrentPasswordIncorrect)
    ELSE IF users[user_id].security.password_reset_token = Null
         THEN Fail(Msg.NoActiveReset)
    ELSE
        /\ users' = [users EXCEPT ![user_id].security.password_reset_expiry = Null]
        /\ last' = Resp("cancel_password_reset", args, TRUE, Msg.ResetCanceled, "str",
                        [token |-> users[user_id].security.password_reset_token])

\* The data of the response is not returned by the code: it records the token
\* that was pending, for the properties.
cancel_password_reset_call(user_id, current_password) ==
    LET args == CancelArgs(user_id, current_password)
        Fail(msg) == /\ last' = Resp("cancel_password_reset", args, FALSE, msg, "str", NoData)
                     /\ UNCHANGED users
    IN
    IF user_id \notin DOMAIN users THEN Fail(Msg.UserNotFound)
    ELSE IF ~checkpw(current_password, users[user_id].password_hash)
         THEN Fail(Msg.CurrentPasswordIncorrect)
    ELSE IF users[user_id].security.password_reset_token = Null
         THEN Fail(Msg.NoActiveReset)
    ELSE
        /\ users' = [users EXCEPT ![user_id].security.password_reset_token = Null,
                                  ![user_id].security.password_reset_expiry = Null]
        /\ last' = Resp("cancel_password_reset", args, TRUE, Msg.ResetCanceled, "str",
                        [token |-> users[user_id].security.password_reset_token])

cancel_password_reset(user_id, current_password) ==
    /\ cancel_password_reset_call(user_id, current_password)
    /\ streak' = NoStreak
    /\ UNCHANGED <<contentVars, nextId, nextToken, now, notes, usedTokens, expiredTokens, calls>>

DeactivateArgs(user_id, password) == [user_id |-> user_id, password |-> password]

deactivate_user_account_call(user_id, password) ==
    LET args == DeactivateArgs(user_id, password) IN
    IF user_id \notin DOMAIN users THEN
        /\ last' = Resp("deactivate_user_account", args, FALSE, Msg.UserNotFound, "str", NoData)
        /\ UNCHANGED users
    ELSE IF ~checkpw(password, users[user_id].password_hash) THEN
        /\ last' = Resp("deactivate_user_account", args, FALSE, Msg.InvalidPassword, "str",
                        NoData)
        /\ UNCHANGED users
    ELSE
        /\ users' = [users EXCEPT ![user_id].is_active = FALSE]
        /\ last' = Resp("deactivate_user_account", args, TRUE, Msg.Deactivated, "str", NoData)

deactivate_user_account(user_id, password) ==
    /\ deactivate_user_account_call(user_id, password)
    /\ streak' = NoStreak
    /\ UNCHANGED <<contentVars, nextId, nextToken, now, notes, usedTokens, expiredTokens, calls>>

\* AxiomCLI.toggle_user_active_status, confirmed by the administrator at the
\* prompt: the flag of the user document shown is flipped.
toggle_user_active_status(user_id) ==
    /\ user_id \in DOMAIN users
    /\ users' = [users EXCEPT ![user_id].is_active = ~@]
    /\ last' = Resp("toggle_user_active_status", [user_id |-> user_id], TRUE, "", "none",
                    NoData)
    /\ streak' = NoStreak
    /\ UNCHANGED <<contentVars, nextId, nextToken, now, notes, usedTokens, expiredTokens, calls>>

ChangeArgs(user_id, current_password, new_password) ==
    [user_id |-> user_id, current_password |-> current_password,
     new_password |-> new_password]

\* A mutant of change_password_call: the new password is validated before the
\* current one is verified.
ChangeValidatesFirst(user_id, current_password, new_password) ==
    LET args == ChangeArgs(user_id, current_password, new_password)
        pv == _validate_password(new_password)
    IN
    IF user_id \notin DOMAIN users THEN
        /\ last' = Resp("change_password", args, FALSE, Msg.UserNotFound, "str", NoData)
        /\ UNCHANGED users
    ELSE IF ~pv.ok THEN
        /\ last' = Resp("change_password", args, FALSE, pv.msg, "str", NoData)
        /\ UNCHANGED users
    ELSE IF ~checkpw(current_password, users[user_id].password_hash) THEN
        /\ last' = Resp("change_password", args, FALSE, Msg.CurrentPasswordIncorrect,
                        "str", NoData)
        /\ UNCHANGED users
    ELSE
        /\ users' = [users EXCEPT ![user_id].password_hash =
                        hashpw(new_password, gensalt("change_password", user_id))]
        /\ last' = Resp("change_password", args, TRUE, Msg.PasswordUpdated, "str", NoData)

change_password_call(user_id, current_password, new_password) ==
    LET args == ChangeArgs(user_id, current_password, new_password)
        pv == _validate_password(new_password)
    IN
    IF user_id \notin DOMAIN users THEN
        /\ last' = Resp("change_password", args, FALSE, Msg.UserNotFound, "str", NoData)
        /\ UNCHANGED users
    ELSE IF ~checkpw(current_password, users[user_id].password_hash) THEN
        /\ last' = Resp("change_password", args, FALSE, Msg.CurrentPasswordIncorrect,
                        "str", NoData)
        /\ UNCHANGED users
    ELSE IF ~pv.ok THEN
        /\ last' = Resp("change_password", args, FALSE, pv.msg, "str", NoData)
        /\ UNCHANGED users
    ELSE
        /\ users' = [users EXCEPT ![user_id].password_hash =
                        hashpw(new_password, gensalt("change_password", user_id))]
        /\ last' = Resp("change_password", args, TRUE, Msg.PasswordUpdated, "str", NoData)

change_password(user_id, current_password, new_password) ==
    /\ change_password_call(user_id, current_password, new_password)
    /\ streak' = NoStreak
    /\ UNCHANGED <<contentVars, nextId, nextToken, now, notes, usedTokens, expiredTokens, calls>>

\* AxiomCLI.reset_user_password_admin, confirmed at the prompt: new_password is
\* the password the command line draws at random.
reset_user_password_admin(user_id, new_password) ==
    /\ IF user_id \notin DOMAIN users
       THEN /\ last' = Resp("reset_user_password_admin", [user_id |-> user_id], FALSE,
                            Msg.UserNotFound, "none", NoData)
            /\ UNCHANGED users
       ELSE /\ users' = [users EXCEPT
                   ![user_id].password_hash =
                       hashpw(new_password, gensalt("reset_user_password_admin", user_id)),
                   ![user_id].security = [password_reset_token |-> Null,
                                          password_reset_expiry |-> Null,
                                          failed_login_attempts |-> 0]]
            /\ last' = Resp("reset_user_password_admin", [user_id |-> user_id], TRUE, "",
                            "none", NoData)
    /\ streak' = NoStreak
    /\ UNCHANGED <<contentVars, nextId, nextToken, now, notes, usedTokens, expiredTokens, calls>>

\* Time passes between calls.
Tick ==
    /\ now < MaxTicks * TokenTTL
    /\ now' = now + TokenTTL
    /\ UNCHANGED <<users, contentVars, nextId, nextToken, last, streak, usedTokens,
                   expiredTokens, calls, notes>>

---------------------------------------------------------------------------
(* The course manager, AxiomCourseManager, the content manager,            *)
(* AxiomContentManager, and the cascades.  A document keeps its reference  *)
(* to its parent, its title and last_updated; an update payload is a set   *)
(* of <<field, value>> pairs.                                              *)


CourseFields == {"title", "description"}
ModuleFields == {"title", "description"}
DeckFields == {"title", "cards"}
QuizFields == {"title", "questions"}
ChapterFields == {"title", "video_url", "start_time", "end_time", "transcript"}

\* {k: v for k, v in updates.items() if k in allowed_fields}
Filtered(updates, allowed_fields) == {kv \in updates : kv[1] \in allowed_fields}

\* update_one({"_id": id}, {"$set": filtered_updates + last_updated}) on coll.
SetFields(coll, id, filtered_updates) ==
    IF id \notin DOMAIN coll THEN coll
    ELSE [coll EXCEPT
            ![id].title = IF \E kv \in filtered_updates : kv[1] = "title"
                          THEN (CHOOSE kv \in filtered_updates : kv[1] = "title")[2]
                          ELSE @,
            ![id].last_updated = now]

\* update_one({"_id": id}, {"$set": {"last_updated": datetime.now()}}) on coll.
Touch(coll, id) == SetFields(coll, id, {})

\* delete_one / delete_many: coll without the documents ids.
Without(coll, ids) == [i \in DOMAIN coll \ ids |-> coll[i]]

ModulesOfCourse(course_id) == {m \in DOMAIN modules : modules[m].course_id = course_id}
InModule(coll, module_id) == {d \in DOMAIN coll : coll[d].module_id = module_id}
InModules(coll, ms) == {d \in DOMAIN coll : coll[d].module_id \in ms}
CoursesOfUser(user_id) == {c \in DOMAIN courses : courses[c].user_id = user_id}

ContentArgs(id, user_id, updates) == [id |-> id, user_id |-> user_id, updates |-> updates]

Refuse(op, args, msg) ==
    /\ last' = Resp(op, args, FALSE, msg, "str", NoData)
    /\ UNCHANGED <<users, contentVars, nextId>>

create_course(user_id) ==
    LET args == ContentArgs(Null, user_id, {}) IN
    /\ IF user_id \notin DOMAIN users THEN Refuse("create_course", args, Msg.UserNotFound)
       ELSE
        /\ nextId.courses <= MaxCourses
        /\ courses' = (nextId.courses :>
                          [user_id |-> user_id, title |-> "t0", last_updated |-> now])
                      @@ courses
        /\ nextId' = [nextId EXCEPT !.courses = @ + 1]
        /\ last' = Resp("create_course", args, TRUE, "", "dict", [uid |-> nextId.courses])
        /\ UNCHANGED <<users, modules, flashcard_decks, quizzes, video_chapters>>
    /\ UNCHANGED <<nextToken, now, notes, streak, usedTokens, expiredTokens, calls>>

\* A mutant of update_course_call: the owner is not compared.
UpdateCourseAnyUser(course_id, user_id, updates) ==
    LET args == ContentArgs(course_id, user_id, updates)
        filtered_updates == Filtered(updates, CourseFields)
    IN
    IF filtered_updates = {} THEN Refuse("update_course", args, Msg.NoValidFields)
    ELSE IF course_id \notin DOMAIN courses
         THEN Refuse("update_course", args, Msg.CourseNotFound)
    ELSE
        /\ courses' = SetFields(courses, course_id, filtered_updates)
        /\ last' = Resp("update_course", args, TRUE, Msg.CourseUpdated, "str", NoData)
        /\ UNCHANGED <<users, modules, flashcard_decks, quizzes, video_chapters, nextId>>

update_course_call(course_id, user_id, updates) ==
    LET args == ContentArgs(course_id, user_id, updates)
        filtered_updates == Filtered(updates, CourseFields)
    IN
    IF filtered_updates = {} THEN Refuse("update_course", args, Msg.NoValidFields)
    ELSE IF course_id \notin DOMAIN courses
         THEN Refuse("update_course", args, Msg.CourseNotFound)
    ELSE IF courses[course_id].user_id # user_id
         THEN Refuse("update_course", args, Msg.NoPermissionUpdateCourse)
    ELSE
        /\ courses' = SetFields(courses, course_id, filtered_updates)
        /\ last' = Resp("update_course", args, TRUE, Msg.CourseUpdated, "str", NoData)
        /\ UNCHANGED <<users, modules, flashcard_decks, quizzes, video_chapters, nextId>>

update_course(course_id, user_id, updates) ==
    /\ update_course_call(course_id, user_id, updates)
    /\ UNCHANGED <<nextToken, now, notes, streak, usedTokens, expiredTokens, calls>>

\* AxiomCourseManager.delete_course: the modules and the course.
delete_course_call(course_id, user_id) ==
    LET args == ContentArgs(course_id, user_id, {}) IN
    IF course_id \notin DOMAIN courses
    THEN Refuse("delete_course", args, Msg.CourseNotFound)
    ELSE IF courses[course_id].user_id # user_id
         THEN Refuse("delete_course", args, Msg.NoPermissionDeleteCourse)
    ELSE
        /\ modules' = Without(modules, ModulesOfCourse(course_id))
        /\ courses' = Without(courses, {course_id})
        /\ last' = Resp("delete_course", args, TRUE, Msg.CourseDeleted, "str", NoData)
        /\ UNCHANGED <<users, flashcard_decks, quizzes, video_chapters, nextId>>

delete_course(course_id, user_id) ==
    /\ delete_course_call(course_id, user_id)
    /\ UNCHANGED <<nextToken, now, notes, streak, usedTokens, expiredTokens, calls>>

\* A mutant of UserManager_delete_course_call: the video chapters stay.
UserManagerDeleteKeepsChapters(course_id, user_id) ==
    LET args == ContentArgs(course_id, user_id, {}) IN
    IF course_id \notin DOMAIN courses
    THEN Refuse("AxiomUserManager.delete_course", args, Msg.CourseNotFound)
    ELSE IF courses[course_id].user_id # user_id
         THEN Refuse("AxiomUserManager.delete_course", args, Msg.NoPermissionDeleteCourse)
    ELSE
        LET ms == ModulesOfCourse(course_id) IN
        /\ flashcard_decks' = Without(flashcard_decks, InModules(flashcard_decks, ms))
        /\ quizzes' = Without(quizzes, InModules(quizzes, ms))
        /\ video_chapters' = video_chapters
        /\ modules' = Without(modules, ms)
        /\ courses' = Without(courses, {course_id})
        /\ last' = Resp("AxiomUserManager.delete_course", args, TRUE,
                        Msg.CourseAndContentDeleted, "str", NoData)
        /\ UNCHANGED <<users, nextId>>

\* AxiomUserManager.delete_course: the content of every module, the modules
\* and the course.
UserManager_delete_course_call(course_id, user_id) ==
    LET args == ContentArgs(course_id, user_id, {}) IN
    IF course_id \notin DOMAIN courses
    THEN Refuse("AxiomUserManager.delete_course", args, Msg.CourseNotFound)
    ELSE IF courses[course_id].user_id # user_id
         THEN Refuse("AxiomUserManager.delete_course", args, Msg.NoPermissionDeleteCourse)
    ELSE
        LET ms == ModulesOfCourse(course_id) IN
        /\ flashcard_decks' = Without(flashcard_decks, InModules(flashcard_decks, ms))
        /\ quizzes' = Without(quizzes, InModules(quizzes, ms))
        /\ video_chapters' = Without(video_chapters, InModules(video_chapters, ms))
        /\ modules' = Without(modules, ms)
        /\ courses' = Without(courses, {course_id})
        /\ last' = Resp("AxiomUserManager.delete_course", args, TRUE,
                        Msg.CourseAndContentDeleted, "str", NoData)
        /\ UNCHANGED <<users, nextId>>

UserManager_delete_course(course_id, user_id) ==
    /\ UserManager_delete_course_call(course_id, user_id)
    /\ UNCHANGED <<nextToken, now, notes, streak, usedTokens, expiredTokens, calls>>

create_module(course_id, user_id) ==
    LET args == ContentArgs(course_id, user_id, {}) IN
    /\ IF course_id \notin DOMAIN courses
       THEN Refuse("create_module", args, Msg.CourseNotFound)
       ELSE IF courses[course_id].user_id # user_id
            THEN Refuse("create_module", args, Msg.NoPermissionAddModule)
       ELSE
        /\ nextId.modules <= MaxModules
        /\ modules' = (nextId.modules :>
                          [course_id |-> course_id, title |-> "t0", last_updated |-> now])
                      @@ modules
        /\ courses' = Touch(courses, course_id)
        /\ nextId' = [nextId EXCEPT !.modules = @ + 1]
        /\ last' = Resp("create_module", args, TRUE, "", "dict", [uid |-> nextId.modules])
        /\ UNCHANGED <<users, flashcard_decks, quizzes, video_chapters>>
    /\ UNCHANGED <<nextToken, now, notes, streak, usedTokens, expiredTokens, calls>>

\* create_module in two steps, for calls that interleave: the find_one on the
\* courses and the two comparisons, then insert_one on the modules and
\* update_one on the course.
create_module_check(p, course_id, user_id) ==
    LET args == ContentArgs(course_id, user_id, {}) IN
    /\ calls[p] = Idle
    /\ IF course_id \notin DOMAIN courses
       THEN /\ Refuse("create_module", args, Msg.CourseNotFound)
            /\ UNCHANGED calls
       ELSE IF courses[course_id].user_id # user_id
            THEN /\ Refuse("create_module", args, Msg.NoPermissionAddModule)
                 /\ UNCHANGED calls
       ELSE
        /\ calls' = [calls EXCEPT ![p] = [pc |-> "create_module_insert",
                                          course_id |-> course_id, user_id |-> user_id]]
        /\ UNCHANGED <<users, contentVars, nextId, last>>
    /\ UNCHANGED <<nextToken, now, notes, streak, usedTokens, expiredTokens>>

create_module_insert(p) ==
    /\ calls[p].pc = "create_module_insert"
    /\ nextId.modules <= MaxModules
    /\ LET course_id == calls[p].course_id
           args == ContentArgs(course_id, calls[p].user_id, {})
       IN
        /\ modules' = (nextId.modules :>
                          [course_id |-> course_id, title |-> "t0", last_updated |-> now])
                      @@ modules
        /\ courses' = Touch(courses, course_id)
        /\ nextId' = [nextId EXCEPT !.modules = @ + 1]
        /\ last' = Resp("create_module", args, TRUE, "", "dict", [uid |-> nextId.modules])
    /\ calls' = [calls EXCEPT ![p] = Idle]
    /\ UNCHANGED <<users, flashcard_decks, quizzes, video_chapters>>
    /\ UNCHANGED <<nextToken, now, notes, streak, usedTokens, expiredTokens>>

update_module_call(module_id, user_id, updates) ==
    LET args == ContentArgs(module_id, user_id, updates)
        filtered_updates == Filtered(updates, ModuleFields)
    IN
    IF filtered_updates = {} THEN Refuse("update_module", args, Msg.NoValidFields)
    ELSE IF module_id \notin DOMAIN modules
         THEN Refuse("update_module", args, Msg.ModuleNotFound)
    ELSE IF modules[module_id].course_id \notin DOMAIN courses
         THEN Refuse("update_module", args, Msg.AssociatedCourseNotFound)
    ELSE IF courses[modules[module_id].course_id].user_id # user_id
         THEN Refuse("update_module", args, Msg.NoPermissionUpdateModule)
    ELSE
        /\ modules' = SetFields(modules, module_id, filtered_updates)
        /\ courses' = Touch(courses, modules[module_id].course_id)
        /\ last' = Resp("update_module", args, TRUE, Msg.ModuleUpdated, "str", NoData)
        /\ UNCHANGED <<users, flashcard_decks, quizzes, video_chapters, nextId>>

update_module(module_id, user_id, updates) ==
    /\ update_module_call(module_id, user_id, updates)
    /\ UNCHANGED <<nextToken, now, notes, streak, usedTokens, expiredTokens, calls>>

delete_module_call(module_id, user_id) ==
    LET args == ContentArgs(module_id, user_id, {}) IN
    IF module_id \notin DOMAIN modules
    THEN Refuse("delete_module", args, Msg.ModuleNotFound)
    ELSE IF modules[module_id].course_id \notin DOMAIN courses
         THEN Refuse("delete_module", args, Msg.AssociatedCourseNotFound)
    ELSE IF courses[modules[module_id].course_id].user_id # user_id
         THEN Refuse("delete_module", args, Msg.NoPermissionDeleteModule)
    ELSE
        /\ modules' = Without(modules, {module_id})
        /\ courses' = Touch(courses, modules[module_id].course_id)
        /\ last' = Resp("delete_module", args, TRUE, Msg.ModuleDeleted, "str", NoData)
        /\ UNCHANGED <<users, flashcard_decks, quizzes, video_chapters, nextId>>

delete_module(module_id, user_id) ==
    /\ delete_module_call(module_id, user_id)
    /\ UNCHANGED <<nextToken, now, notes, streak, usedTokens, expiredTokens, calls>>

_verify_module_ownership(module_id, user_id) ==
    IF module_id \notin DOMAIN modules THEN Result(FALSE, Msg.ModuleNotFound)
    ELSE IF modules[module_id].course_id \notin DOMAIN courses
         THEN Result(FALSE, Msg.AssociatedCourseNotFound)
    ELSE IF courses[modules[module_id].course_id].user_id # user_id
         THEN Result(FALSE, Msg.NoPermissionModifyModule)
    ELSE Result(TRUE, "")

\* create_flashcard_deck, create_quiz and create_video_chapter are the same
\* code on three collections: coll is the collection before the call and
\* collNext after it.  The cards or questions given are well-formed.
CreateContent(op, coll, collNext, name, bound, module_id, user_id) ==
    LET args == ContentArgs(module_id, user_id, {})
        verified == _verify_module_ownership(module_id, user_id)
    IN
    IF ~verified.ok THEN Refuse(op, args, verified.msg)
    ELSE
        /\ nextId[name] <= bound
        /\ collNext = (nextId[name] :>
                          [module_id |-> module_id, title |-> "t0", last_updated |-> now])
                      @@ coll
        /\ modules' = Touch(modules, module_id)
        /\ courses' = Touch(courses, modules[module_id].course_id)
        /\ nextId' = [nextId EXCEPT ![name] = @ + 1]
        /\ last' = Resp(op, args, TRUE, "", "dict", [uid |-> nextId[name]])
        /\ UNCHANGED users

\* update_flashcard_deck, update_quiz and update_video_chapter.
UpdateContent(op, coll, collNext, notFound, allowed_fields, done, id, user_id, updates) ==
    LET args == ContentArgs(id, user_id, updates)
        filtered_updates == Filtered(updates, allowed_fields)
    IN
    IF id \notin DOMAIN coll THEN Refuse(op, args, notFound)
    ELSE
        LET module_id == coll[id].module_id
            verified == _verify_module_ownership(module_id, user_id)
        IN
        IF ~verified.ok THEN Refuse(op, args, verified.msg)
        ELSE IF filtered_updates = {} THEN Refuse(op, args, Msg.NoValidFields)
        ELSE
            /\ collNext = SetFields(coll, id, filtered_updates)
            /\ modules' = Touch(modules, module_id)
            /\ courses' = Touch(courses, modules[module_id].course_id)
            /\ last' = Resp(op, args, TRUE, done, "str", NoData)
            /\ UNCHANGED <<users, nextId>>

\* A mutant of DeleteContent: delete_one comes before the ownership check.
DeleteContentBeforeChecks(op, coll, collNext, notFound, done, id, user_id) ==
    LET args == ContentArgs(id, user_id, {}) IN
    IF id \notin DOMAIN coll THEN Refuse(op, args, notFound)
    ELSE
        LET module_id == coll[id].module_id
            verified == _verify_module_ownership(module_id, user_id)
        IN
        IF ~verified.ok
        THEN /\ collNext = Without(coll, {id})
             /\ last' = Resp(op, args, FALSE, verified.msg, "str", NoData)
             /\ UNCHANGED <<users, courses, modules, nextId>>
        ELSE
            /\ collNext = Without(coll, {id})
            /\ modules' = Touch(modules, module_id)
            /\ courses' = Touch(courses, modules[module_id].course_id)
            /\ last' = Resp(op, args, TRUE, done, "str", NoData)
            /\ UNCHANGED <<users, nextId>>

\* delete_flashcard_deck, delete_quiz and delete_video_chapter.
DeleteContent(op, coll, collNext, notFound, done, id, user_id) ==
    LET args == ContentArgs(id, user_id, {}) IN
    IF id \notin DOMAIN coll THEN Refuse(op, args, notFound)
    ELSE
        LET module_id == coll[id].module_id
            verified == _verify_module_ownership(module_id, user_id)
        IN
        IF ~verified.ok THEN Refuse(op, args, verified.msg)
        ELSE
            /\ collNext = Without(coll, {id})
            /\ modules' = Touch(modules, module_id)
            /\ courses' = Touch(courses, modules[module_id].course_id)
            /\ last' = Resp(op, args, TRUE, done, "str", NoData)
            /\ UNCHANGED <<users, nextId>>

\* create_flashcard_deck, create_quiz and create_video_chapter as two steps
\* of caller p, name being the collection.  create_content_verify is
\* _verify_module_ownership, which hands back the module document it read;
\* create_content_insert is insert_one and the two update_one that follow, the
\* second by the course_id of that document.  Nothing is read again.
ContentNames == {"flashcard_decks", "quizzes", "video_chapters"}
CreateOp(name) ==
    CASE name = "flashcard_decks" -> "create_flashcard_deck"
      [] name = "quizzes" -> "create_quiz"
      [] name = "video_chapters" -> "create_video_chapter"
ContentBound(name) ==
    CASE name = "flashcard_decks" -> MaxDecks
      [] name = "quizzes" -> MaxQuizzes
      [] name = "video_chapters" -> MaxChapters

create_content_verify(p, name, module_id, user_id) ==
    LET args == ContentArgs(module_id, user_id, {})
        verified == _verify_module_ownership(module_id, user_id)
    IN
    /\ calls[p] = Idle
    /\ IF ~verified.ok
       THEN Refuse(CreateOp(name), args, verified.msg) /\ UNCHANGED calls
       ELSE /\ calls' = [calls EXCEPT ![p] =
                   [pc |-> "create_content_insert", name |-> name, args |-> args,
                    course_id |-> modules[module_id].course_id]]
            /\ UNCHANGED <<users, contentVars, nextId, last>>
    /\ UNCHANGED <<nextToken, now, notes, streak, usedTokens, expiredTokens>>

create_content_insert(p) ==
    LET f == calls[p]
        new == [module_id |-> f.args.id, title |-> "t0", last_updated |-> now]
    IN
    /\ f.pc = "create_content_insert"
    /\ nextId[f.name] <= ContentBound(f.name)
    /\ calls' = [calls EXCEPT ![p] = Idle]
    /\ flashcard_decks' = IF f.name = "flashcard_decks"
                          THEN (nextId[f.name] :> new) @@ flashcard_decks
                          ELSE flashcard_decks
    /\ quizzes' = IF f.name = "quizzes" THEN (nextId[f.name] :> new) @@ quizzes ELSE quizzes
    /\ video_chapters' = IF f.name = "video_chapters"
                         THEN (nextId[f.name] :> new) @@ video_chapters
                         ELSE video_chapters
    /\ modules' = Touch(modules, f.args.id)
    /\ courses' = Touch(courses, f.course_id)
    /\ nextId' = [nextId EXCEPT ![f.name] = @ + 1]
    /\ last' = Resp(CreateOp(f.name), f.args, TRUE, "", "dict", [uid |-> nextId[f.name]])
    /\ UNCHANGED <<users, nextToken, now, notes, streak, usedTokens, expiredTokens>>

create_flashcard_deck(module_id, user_id) ==
    /\ CreateContent("create_flashcard_deck", flashcard_decks, flashcard_decks', "flashcard_decks", MaxDecks,
                     module_id, user_id)
    /\ UNCHANGED <<quizzes, video_chapters, nextToken, now, notes, streak, usedTokens, expiredTokens, calls>>

update_flashcard_deck(deck_id, user_id, updates) ==
    /\ UpdateContent("update_flashcard_deck", flashcard_decks, flashcard_decks', Msg.DeckNotFound, DeckFields,
                     Msg.DeckUpdated, deck_id, user_id, updates)
    /\ UNCHANGED <<quizzes, video_chapters, nextToken, now, notes, streak, usedTokens, expiredTokens, calls>>

delete_flashcard_deck(deck_id, user_id) ==
    /\ DeleteContent("delete_flashcard_deck", flashcard_decks, flashcard_decks', Msg.DeckNotFound, Msg.DeckDeleted,
                     deck_id, user_id)
    /\ UNCHANGED <<quizzes, video_chapters, nextToken, now, notes, streak, usedTokens, expiredTokens, calls>>

create_quiz(module_id, user_id) ==
    /\ CreateContent("create_quiz", quizzes, quizzes', "quizzes", MaxQuizzes,
                     module_id, user_id)
    /\ UNCHANGED <<flashcard_decks, video_chapters, nextToken, now, notes, streak, usedTokens, expiredTokens, calls>>

update_quiz(quiz_id, user_id, updates) ==
    /\ UpdateContent("update_quiz", quizzes, quizzes', Msg.QuizNotFound, QuizFields,
                     Msg.QuizUpdated, quiz_id, user_id, updates)
    /\ UNCHANGED <<flashcard_decks, video_chapters, nextToken, now, notes, streak, usedTokens, expiredTokens, calls>>

delete_quiz(quiz_id, user_id) ==
    /\ DeleteContent("delete_quiz", quizzes, quizzes', Msg.QuizNotFound, Msg.QuizDeleted,
                     quiz_id, user_id)
    /\ UNCHANGED <<flashcard_decks, video_chapters, nextToken, now, notes, streak, usedTokens, expiredTokens, calls>>

create_video_chapter(module_id, user_id) ==
    /\ CreateContent("create_video_chapter", video_chapters, video_chapters', "video_chapters", MaxChapters,
                     module_id, user_id)
    /\ UNCHANGED <<flashcard_decks, quizzes, nextToken, now, notes, streak, usedTokens, expiredTokens, calls>>

update_video_chapter(chapter_id, user_id, updates) ==
    /\ UpdateContent("update_video_chapter", video_chapters, video_chapters', Msg.ChapterNotFound, ChapterFields,
                     Msg.ChapterUpdated, chapter_id, user_id, updates)
    /\ UNCHANGED <<flashcard_decks, quizzes, nextToken, now, notes, streak, usedTokens, expiredTokens, calls>>

delete_video_chapter(chapter_id, user_id) ==
    /\ DeleteContent("delete_video_chapter", video_chapters, video_chapters', Msg.ChapterNotFound, Msg.ChapterDeleted,
                     chapter_id, user_id)
    /\ UNCHANGED <<flashcard_decks, quizzes, nextToken, now, notes, streak, usedTokens, expiredTokens, calls>>

\* AxiomUserManager.create_flashcard_deck: the module is looked up, then its
\* course, and course["user_id"] is read without a test that a course was
\* found: on None the subscript raises TypeError, outside any try, and the
\* caller gets the exception instead of a return value.
UserManager_create_flashcard_deck_call(module_id, user_id) ==
    LET op == "AxiomUserManager.create_flashcard_deck"
        args == ContentArgs(module_id, user_id, {})
    IN
    IF module_id \notin DOMAIN modules THEN Refuse(op, args, Msg.ModuleNotFound)
    ELSE IF modules[module_id].course_id \notin DOMAIN courses
         THEN /\ last' = Resp(op, args, FALSE, Msg.TypeError, "raise", NoData)
              /\ UNCHANGED <<users, contentVars, nextId>>
    ELSE IF courses[modules[module_id].course_id].user_id # user_id
         THEN Refuse(op, args, Msg.NoPermissionAddContent)
    ELSE
        /\ nextId.flashcard_decks <= MaxDecks
        /\ flashcard_decks' = (nextId.flashcard_decks :>
                                  [module_id |-> module_id, title |-> "t0",
                                   last_updated |-> now])
                              @@ flashcard_decks
        /\ modules' = Touch(modules, module_id)
        /\ courses' = Touch(courses, modules[module_id].course_id)
        /\ nextId' = [nextId EXCEPT !.flashcard_decks = @ + 1]
        /\ last' = Resp(op, args, TRUE, "", "dict", [uid |-> nextId.flashcard_decks])
        /\ UNCHANGED <<users, quizzes, video_chapters>>

UserManager_create_flashcard_deck(module_id, user_id) ==
    /\ UserManager_create_flashcard_deck_call(module_id, user_id)
    /\ UNCHANGED <<nextToken, now, notes, streak, usedTokens, expiredTokens, calls>>

\* password=None, written as a string no caller types.
NonePassword == <<"None">>

\* The sum of result.deleted_count over the delete_many calls of the loops of
\* delete_user_account: one call per module on a content collection, one
\* call per course on the modules.
RECURSIVE DeletedInModules(_, _)
DeletedInModules(coll, ms) ==
    IF ms = {} THEN 0
    ELSE LET m == CHOOSE x \in ms : TRUE
         IN Cardinality(InModule(coll, m)) + DeletedInModules(coll, ms \ {m})

RECURSIVE DeletedModules(_)
DeletedModules(cs) ==
    IF cs = {} THEN 0
    ELSE LET c == CHOOSE x \in cs : TRUE
         IN Cardinality(ModulesOfCourse(c)) + DeletedModules(cs \ {c})

DeleteAccountArgs(user_id, password) == [user_id |-> user_id, password |-> password]

\* A mutant of delete_user_account_found: the quizzes are counted, not deleted.
DeleteAccountKeepsQuizzes(user_id, password) ==
    LET cs == CoursesOfUser(user_id)
        ms == UNION {ModulesOfCourse(c) : c \in cs}
        deletion_counts ==
            [flashcard_decks |-> DeletedInModules(flashcard_decks, ms),
             quizzes |-> DeletedInModules(quizzes, ms),
             video_chapters |-> DeletedInModules(video_chapters, ms),
             modules |-> DeletedModules(cs),
             courses |-> Cardinality(cs)]
    IN
    /\ flashcard_decks' = Without(flashcard_decks, InModules(flashcard_decks, ms))
    /\ quizzes' = quizzes
    /\ video_chapters' = Without(video_chapters, InModules(video_chapters, ms))
    /\ modules' = Without(modules, ms)
    /\ courses' = Without(courses, cs)
    /\ users' = Without(users, {user_id})
    /\ last' = Resp("delete_user_account", DeleteAccountArgs(user_id, password), TRUE,
                    Msg.AccountDeleted, "str", deletion_counts)
    /\ UNCHANGED nextId

\* delete_user_account once the user is found and the password accepted.
delete_user_account_found(user_id, password) ==
    LET cs == CoursesOfUser(user_id)
        ms == UNION {ModulesOfCourse(c) : c \in cs}
        deletion_counts ==
            [flashcard_decks |-> DeletedInModules(flashcard_decks, ms),
             quizzes |-> DeletedInModules(quizzes, ms),
             video_chapters |-> DeletedInModules(video_chapters, ms),
             modules |-> DeletedModules(cs),
             courses |-> Cardinality(cs)]
    IN
    /\ flashcard_decks' = Without(flashcard_decks, InModules(flashcard_decks, ms))
    /\ quizzes' = Without(quizzes, InModules(quizzes, ms))
    /\ video_chapters' = Without(video_chapters, InModules(video_chapters, ms))
    /\ modules' = Without(modules, ms)
    /\ courses' = Without(courses, cs)
    /\ users' = Without(users, {user_id})
    /\ last' = Resp("delete_user_account", DeleteAccountArgs(user_id, password), TRUE,
                    Msg.AccountDeleted, "str", deletion_counts)
    /\ UNCHANGED nextId

delete_user_account_call(user_id, password) ==
    LET args == DeleteAccountArgs(user_id, password) IN
    IF user_id \notin DOMAIN users
    THEN Refuse("delete_user_account", args, Msg.UserNotFound)
    ELSE IF password # NonePassword /\ ~checkpw(password, users[user_id].password_hash)
         THEN Refuse("delete_user_account", args, Msg.InvalidPassword)
    ELSE delete_user_account_found(user_id, password)

delete_user_account(user_id, password) ==
    /\ delete_user_account_call(user_id, password)
    /\ UNCHANGED <<nextToken, now, notes, streak, usedTokens, expiredTokens, calls>>

\* AxiomCLI.toggle_admin_status, confirmed at the prompt: the is_admin flag
\* of the user document shown is flipped.
toggle_admin_status(user_id) ==
    /\ user_id \in DOMAIN users
    /\ users' = [users EXCEPT ![user_id].is_admin = ~@]
    /\ last' = Resp("toggle_admin_status", [user_id |-> user_id], TRUE, "", "none", NoData)
    /\ streak' = NoStreak
    /\ UNCHANGED <<contentVars, nextId, nextToken, now, notes, usedTokens, expiredTokens, calls>>

AdminDeleteArgs(admin_user_id, target_user_id) ==
    [admin_user_id |-> admin_user_id, target_user_id |-> target_user_id]

\* A mutant of admin_delete_user_call: the is_admin flag is not read.
AdminDeleteByAnyUser(admin_user_id, target_user_id) ==
    LET args == AdminDeleteArgs(admin_user_id, target_user_id) IN
    IF admin_user_id \notin DOMAIN users
    THEN Refuse("admin_delete_user", args, Msg.AdminNotFound)
    ELSE delete_user_account_call(target_user_id, NonePassword)

\* admin_delete_user: the value returned for an administrator is the one of
\* delete_user_account(target_user_id, password=None).
admin_delete_user_call(admin_user_id, target_user_id) ==
    LET args == AdminDeleteArgs(admin_user_id, target_user_id) IN
    IF admin_user_id \notin DOMAIN users
    THEN Refuse("admin_delete_user", args, Msg.AdminNotFound)
    ELSE IF ~users[admin_user_id].is_admin
         THEN Refuse("admin_delete_user", args, Msg.AdminRequired)
    ELSE delete_user_account_call(target_user_id, NonePassword)

admin_delete_user(admin_user_id, target_user_id) ==
    /\ admin_delete_user_call(admin_user_id, target_user_id)
    /\ UNCHANGED <<nextToken, now, notes, streak, usedTokens, expiredTokens, calls>>

---------------------------------------------------------------------------
(* The cascades, one storage operation at a time.  The frame of a caller   *)
(* inside a cascade holds the call and its arguments, the courses still to *)
(* visit, the course and the module of the current iteration, the modules  *)
(* of the course still to visit, and deletion_counts.  pc names the        *)
(* collection of the next delete_many or delete_one; at pc "course" the    *)
(* next course is taken and its modules are fetched.                       *)

NoCounts == [flashcard_decks |-> 0, quizzes |-> 0, video_chapters |-> 0,
             modules |-> 0, courses |-> 0]

CascadeFrame(op, args, pc, todo, course) ==
    [pc |-> pc, op |-> op, args |-> args, todo |-> todo, course |-> course,
     mods |-> {}, module |-> Null, deletion_counts |-> NoCounts]

DeletePcs == {"flashcard_decks", "quizzes", "video_chapters", "modules", "courses", "users"}
\* The positions of a caller inside a cascade.  One cascade runs at a time.
CascadePcs == DeletePcs \cup {"course"}

\* delete_user_account up to courses = list(find({"user_id": ...})).
delete_user_account_begin(p, user_id, password) ==
    LET args == DeleteAccountArgs(user_id, password) IN
    /\ calls[p] = Idle
    /\ \A q \in Callers : calls[q].pc \notin CascadePcs
    /\ IF user_id \notin DOMAIN users
       THEN Refuse("delete_user_account", args, Msg.UserNotFound) /\ UNCHANGED calls
       ELSE IF password # NonePassword /\ ~checkpw(password, users[user_id].password_hash)
            THEN Refuse("delete_user_account", args, Msg.InvalidPassword) /\ UNCHANGED calls
       ELSE
        /\ calls' = [calls EXCEPT ![p] =
                        CascadeFrame("delete_user_account", args,
                                     IF CoursesOfUser(user_id) = {} THEN "courses" ELSE "course",
                                     CoursesOfUser(user_id), Null)]
        /\ UNCHANGED <<users, contentVars, nextId, last>>
    /\ UNCHANGED <<nextToken, now, notes, streak, usedTokens, expiredTokens>>

\* AxiomUserManager.delete_course up to the try.
UserManager_delete_course_begin(p, course_id, user_id) ==
    LET op == "AxiomUserManager.delete_course"
        args == ContentArgs(course_id, user_id, {})
    IN
    /\ calls[p] = Idle
    /\ \A q \in Callers : calls[q].pc \notin CascadePcs
    /\ IF course_id \notin DOMAIN courses
       THEN Refuse(op, args, Msg.CourseNotFound) /\ UNCHANGED calls
       ELSE IF courses[course_id].user_id # user_id
            THEN Refuse(op, args, Msg.NoPermissionDeleteCourse) /\ UNCHANGED calls
       ELSE
        /\ calls' = [calls EXCEPT ![p] = CascadeFrame(op, args, "course", {course_id}, Null)]
        /\ UNCHANGED <<users, contentVars, nextId, last>>
    /\ UNCHANGED <<nextToken, now, notes, streak, usedTokens, expiredTokens>>

\* AxiomCourseManager.delete_course up to the try: the next storage
\* operation is delete_many on the modules.
delete_course_begin(p, course_id, user_id) ==
    LET args == ContentArgs(course_id, user_id, {}) IN
    /\ calls[p] = Idle
    /\ \A q \in Callers : calls[q].pc \notin CascadePcs
    /\ IF course_id \notin DOMAIN courses
       THEN Refuse("delete_course", args, Msg.CourseNotFound) /\ UNCHANGED calls
       ELSE IF courses[course_id].user_id # user_id
            THEN Refuse("delete_course", args, Msg.NoPermissionDeleteCourse) /\ UNCHANGED calls
       ELSE
        /\ calls' = [calls EXCEPT ![p] =
                        CascadeFrame("delete_course", args, "modules", {course_id}, course_id)]
        /\ UNCHANGED <<users, contentVars, nextId, last>>
    /\ UNCHANGED <<nextToken, now, notes, streak, usedTokens, expiredTokens>>

\* The documents the filter of the delete at f.pc matches.
CascadeTarget(f) ==
    CASE f.pc = "flashcard_decks" -> InModule(flashcard_decks, f.module)
      [] f.pc = "quizzes" -> InModule(quizzes, f.module)
      [] f.pc = "video_chapters" -> InModule(video_chapters, f.module)
      [] f.pc = "modules" -> ModulesOfCourse(f.course)
      [] f.pc = "courses" -> IF f.op = "delete_user_account"
                             THEN CoursesOfUser(f.args.user_id)
                             ELSE {f.args.id} \cap DOMAIN courses
      [] f.pc = "users" -> {f.args.user_id} \cap DOMAIN users

\* The collection named loses the documents ids; the others stay.
DeleteFrom(name, ids) ==
    /\ flashcard_decks' = IF name = "flashcard_decks" THEN Without(flashcard_decks, ids)
                          ELSE flashcard_decks
    /\ quizzes' = IF name = "quizzes" THEN Without(quizzes, ids) ELSE quizzes
    /\ video_chapters' = IF name = "video_chapters" THEN Without(video_chapters, ids)
                         ELSE video_chapters
    /\ modules' = IF name = "modules" THEN Without(modules, ids) ELSE modules
    /\ courses' = IF name = "courses" THEN Without(courses, ids) ELSE courses
    /\ users' = IF name = "users" THEN Without(users, ids) ELSE users

\* The delete at f.pc is the last statement before the return.
Finishes(f) ==
    \/ f.pc = "users"
    \/ f.pc = "courses" /\ f.op # "delete_user_account"

\* The frames the caller can be in after the delete at f.pc removed n
\* documents; the loops take the modules in any order.
NextFrames(f, n) ==
    LET g == IF f.pc = "users" THEN f
             ELSE [f EXCEPT !.deletion_counts[f.pc] = @ + n]
    IN
    CASE f.pc = "flashcard_decks" -> {[g EXCEPT !.pc = "quizzes"]}
      [] f.pc = "quizzes" -> {[g EXCEPT !.pc = "video_chapters"]}
      [] f.pc = "video_chapters" ->
            IF f.mods = {f.module}
            THEN {[g EXCEPT !.pc = "modules", !.mods = {}, !.module = Null]}
            ELSE {[g EXCEPT !.pc = "flashcard_decks", !.mods = f.mods \ {f.module},
                            !.module = m] : m \in f.mods \ {f.module}}
      [] f.pc = "modules" ->
            IF f.op = "delete_user_account" /\ f.todo # {f.course}
            THEN {[g EXCEPT !.pc = "course", !.todo = f.todo \ {f.course}]}
            ELSE {[g EXCEPT !.pc = "courses", !.todo = {}]}
      [] f.pc = "courses" -> {[g EXCEPT !.pc = "users"]}
      [] f.pc = "users" -> {g}

\* The return value after the last delete.
CascadeDone(f) ==
    IF f.op = "delete_user_account"
    THEN Resp(f.op, f.args, TRUE, Msg.AccountDeleted, "str", f.deletion_counts)
    ELSE Resp(f.op, f.args, TRUE,
              IF f.op = "delete_course" THEN Msg.CourseDeleted
              ELSE Msg.CourseAndContentDeleted,
              "str", NoData)

\* The next statement of the cascade of caller p: the head of a loop over
\* the courses, or one delete_many or delete_one.
cascade_step(p) ==
    LET f == calls[p] IN
    /\ f.pc \in DeletePcs \cup {"course"}
    /\ IF f.pc = "course"
       THEN \E c \in f.todo :
              /\ IF ModulesOfCourse(c) = {}
                 THEN calls' = [calls EXCEPT ![p] = [f EXCEPT !.pc = "modules", !.course = c]]
                 ELSE \E m \in ModulesOfCourse(c) :
                        calls' = [calls EXCEPT ![p] =
                                     [f EXCEPT !.pc = "flashcard_decks", !.course = c,
                                               !.mods = ModulesOfCourse(c), !.module = m]]
              /\ UNCHANGED <<users, contentVars, last>>
       ELSE
          /\ DeleteFrom(f.pc, CascadeTarget(f))
          /\ IF Finishes(f)
             THEN /\ calls' = [calls EXCEPT ![p] = Idle]
                  /\ last' = CascadeDone(f)
             ELSE /\ \E g \in NextFrames(f, Cardinality(CascadeTarget(f))) :
                        calls' = [calls EXCEPT ![p] = g]
                  /\ UNCHANGED last
    /\ UNCHANGED <<nextId, nextToken, now, notes, streak, usedTokens, expiredTokens>>

\* A mutant of storage_error: the handler removes the parent as well.
StorageErrorRemovesParent(p) ==
    LET f == calls[p] IN
    /\ f.pc \in DeletePcs
    /\ IF f.op = "delete_user_account"
       THEN DeleteFrom("users", {f.args.user_id})
       ELSE DeleteFrom("courses", {f.args.id})
    /\ calls' = [calls EXCEPT ![p] = Idle]
    /\ last' = Resp(f.op, f.args, FALSE,
                    IF f.op = "delete_user_account" THEN Msg.ErrorDeletingAccount
                    ELSE Msg.DatabaseError,
                    "str", NoData)
    /\ UNCHANGED <<nextId, nextToken, now, notes, streak, usedTokens, expiredTokens>>

\* The delete at the pc of caller p raises before it has removed all the
\* documents of its filter: the except clause of the call returns the
\* failure and no statement of the try follows.
storage_error(p) ==
    LET f == calls[p] IN
    /\ f.pc \in DeletePcs
    /\ \E gone \in SUBSET CascadeTarget(f) :
          /\ gone = CascadeTarget(f) => gone = {}
          /\ DeleteFrom(f.pc, gone)
    /\ calls' = [calls EXCEPT ![p] = Idle]
    /\ last' = Resp(f.op, f.args, FALSE,
                    IF f.op = "delete_user_account" THEN Msg.ErrorDeletingAccount
                    ELSE Msg.DatabaseError,
                    "str", NoData)
    /\ UNCHANGED <<nextId, nextToken, now, notes, streak, usedTokens, expiredTokens>>

---------------------------------------------------------------------------
(* Two specifications of the account manager; calls arrive one after       *)
(* another.  SpecAccounts: registrations and logins of up to MaxUsers      *)
(* accounts, with every argument of the sets below.  SpecRecovery: one     *)
(* account, its logins and its password resets, as time passes.            *)

Usernames == {Str.al, Str.b_at_c_d}
Emails == {Str.a_at_c_d, Str.b_at_c_d, Str.bad}
GoodPassword == Str.LongEnough1Bang
OtherPassword == Str.Other1Pass
RegisterPasswords == {GoodPassword, OtherPassword, Str.weak}
LoginIdentifiers == {Str.al, Str.a_at_c_d, Str.b_at_c_d}
LoginPasswords == {GoodPassword, OtherPassword}
NewPasswords == {OtherPassword, Str.weak}
\* Tokens a caller can present: those issued so far, and 0, never issued.
ResetTokens == 0..(nextToken - 1)

InitAccounts ==
    /\ EmptyStore
    /\ last = NoCall

NextAccounts ==
    \/ \E username \in Usernames, email \in Emails, password \in RegisterPasswords :
          register_user(username, email, password, Str.T, Str.T)
    \/ \E username_or_email \in LoginIdentifiers, password \in LoginPasswords :
          login(username_or_email, password)

SpecAccounts == InitAccounts /\ [][NextAccounts]_vars

InitRecovery ==
    /\ EmptyStore
    /\ last = NoCall

NextRecovery ==
    \/ register_user(Str.al, Str.a_at_c_d, GoodPassword, Str.T, Str.T)
    \/ \E username_or_email \in {Str.al, Str.a_at_c_d}, password \in LoginPasswords :
          login(username_or_email, password)
    \/ \E email \in {Str.a_at_c_d, Str.b_at_c_d} : request_password_reset(email)
    \/ \E reset_token \in ResetTokens, new_password \in NewPasswords :
          reset_password(reset_token, new_password)
    \/ \E user_id \in {1, 2}, current_password \in LoginPasswords :
          cancel_password_reset(user_id, current_password)
    \/ Tick

SpecRecovery == InitRecovery /\ [][NextRecovery]_vars

\* SpecVerification: accounts register and verify their e-mail addresses as
\* time passes.  The tokens presented are those register_user returns, and
\* one that was never issued.
VerificationTokens == {<<"verify", uid>> : uid \in 0..MaxUsers}

NextVerification ==
    \/ \E username \in Usernames, email \in {Str.a_at_c_d, Str.b_at_c_d} :
          register_user(username, email, GoodPassword, Str.T, Str.T)
    \/ \E verification_token \in VerificationTokens : verify_email(verification_token)
    \/ Tick

SpecVerification == InitAccounts /\ [][NextVerification]_vars

\* SpecRace: MaxCallers callers register side by side; a caller's pre-checks
\* and its insert are two steps, and any step of another caller may come
\* between them.
InitRace ==
    /\ EmptyStore
    /\ last = NoCall

NextRace ==
    \/ \E p \in Callers, username \in Usernames, email \in Emails,
          password \in {GoodPassword, Str.weak} :
          register_user_precheck(p, username, email, password, Str.T, Str.T)
    \/ \E p \in Callers : register_user_insert(p)

SpecRace == InitRace /\ [][NextRace]_vars

---------------------------------------------------------------------------
(* Two specifications of the course and content managers, both with two    *)
(* registered accounts.  SpecContent: courses, modules and content are     *)
(* created, courses, modules and accounts are deleted.  SpecOwnership: one course   *)
(* with a module and one document of each kind under it; either account    *)
(* updates and deletes, with every payload of Payloads.                    *)

UserIds == 1..MaxUsers
CourseIds == 1..MaxCourses
ModuleIds == 1..MaxModules
DeckIds == 1..MaxDecks
QuizIds == 1..MaxQuizzes
ChapterIds == 1..MaxChapters
Payloads == SUBSET {<<"title", "t1">>, <<"user_id", "u">>}
DeletePasswords == {GoodPassword, OtherPassword, NonePassword}

\* The store after register_user(al, a@c.d, LongEnough1!) and
\* register_user(T, b@c.d, Other1?pw).
TwoAccounts ==
    /\ now = 0
    /\ users = <<NewUser(Str.al, Str.a_at_c_d, GoodPassword, gensalt("register_user", 1), 1),
                 NewUser(Str.T, Str.b_at_c_d, OtherPassword, gensalt("register_user", 2), 2)>>
    /\ nextToken = 1
    /\ streak = NoStreak
    /\ usedTokens = {}
    /\ expiredTokens = {}
    /\ calls = NoCalls
    /\ notes = <<>>

InitContent ==
    /\ TwoAccounts
    /\ courses = <<>>
    /\ modules = <<>>
    /\ flashcard_decks = <<>>
    /\ quizzes = <<>>
    /\ video_chapters = <<>>
    /\ nextId = [users |-> 3, courses |-> 1, modules |-> 1, flashcard_decks |-> 1,
                 quizzes |-> 1, video_chapters |-> 1]
    /\ last = NoCall

NextContent ==
    \/ \E user_id \in UserIds : create_course(user_id)
    \/ \E course_id \in CourseIds, user_id \in UserIds : delete_course(course_id, user_id)
    \/ \E course_id \in CourseIds, user_id \in UserIds :
          UserManager_delete_course(course_id, user_id)
    \/ \E course_id \in CourseIds, user_id \in UserIds : create_module(course_id, user_id)
    \/ \E module_id \in ModuleIds, user_id \in UserIds : delete_module(module_id, user_id)
    \/ \E module_id \in ModuleIds, user_id \in UserIds :
          create_flashcard_deck(module_id, user_id)
    \/ \E module_id \in ModuleIds, user_id \in UserIds : create_quiz(module_id, user_id)
    \/ \E module_id \in ModuleIds, user_id \in UserIds :
          create_video_chapter(module_id, user_id)
    \/ \E user_id \in UserIds, password \in DeletePasswords :
          delete_user_account(user_id, password)

SpecContent == InitContent /\ [][NextContent]_vars

\* The store after create_course, create_module, create_flashcard_deck,
\* create_quiz and create_video_chapter by one of the two accounts.
InitOwnership ==
    /\ TwoAccounts
    /\ \E owner \in UserIds :
          courses = <<[user_id |-> owner, title |-> "t0", last_updated |-> now]>>
    /\ modules = <<[course_id |-> 1, title |-> "t0", last_updated |-> now]>>
    /\ flashcard_decks = <<[module_id |-> 1, title |-> "t0", last_updated |-> now]>>
    /\ quizzes = <<[module_id |-> 1, title |-> "t0", last_updated |-> now]>>
    /\ video_chapters = <<[module_id |-> 1, title |-> "t0", last_updated |-> now]>>
    /\ nextId = [users |-> 3, courses |-> 2, modules |-> 2, flashcard_decks |-> 2,
                 quizzes |-> 2, video_chapters |-> 2]
    /\ last = Resp("create_video_chapter", ContentArgs(1, courses[1].user_id, {}),
                   TRUE, "", "dict", [uid |-> 1])

NextOwnership ==
    \/ \E course_id \in CourseIds, user_id \in UserIds, updates \in Payloads :
          update_course(course_id, user_id, updates)
    \/ \E course_id \in CourseIds, user_id \in UserIds : delete_course(course_id, user_id)
    \/ \E course_id \in CourseIds, user_id \in UserIds :
          UserManager_delete_course(course_id, user_id)
    \/ \E module_id \in ModuleIds, user_id \in UserIds, updates \in Payloads :
          update_module(module_id, user_id, updates)
    \/ \E module_id \in ModuleIds, user_id \in UserIds : delete_module(module_id, user_id)
    \/ \E deck_id \in DeckIds, user_id \in UserIds, updates \in Payloads :
          update_flashcard_deck(deck_id, user_id, updates)
    \/ \E deck_id \in DeckIds, user_id \in UserIds : delete_flashcard_deck(deck_id, user_id)
    \/ \E quiz_id \in QuizIds, user_id \in UserIds, updates \in Payloads :
          update_quiz(quiz_id, user_id, updates)
    \/ \E quiz_id \in QuizIds, user_id \in UserIds : delete_quiz(quiz_id, user_id)
    \/ \E chapter_id \in ChapterIds, user_id \in UserIds, updates \in Payloads :
          update_video_chapter(chapter_id, user_id, updates)
    \/ \E chapter_id \in ChapterIds, user_id \in UserIds :
          delete_video_chapter(chapter_id, user_id)

SpecOwnership == InitOwnership /\ [][NextOwnership]_vars

\* SpecDeactivation: the two accounts and the course of InitOwnership; the
\* accounts log in, deactivate themselves and are toggled by an administrator.
NextDeactivation ==
    \/ \E username_or_email \in LoginIdentifiers, password \in LoginPasswords :
          login(username_or_email, password)
    \/ \E user_id \in UserIds, password \in LoginPasswords :
          deactivate_user_account(user_id, password)
    \/ \E user_id \in UserIds : toggle_user_active_status(user_id)

SpecDeactivation == InitOwnership /\ [][NextDeactivation]_vars

\* SpecTokens: accounts register, request and refresh password resets, reset
\* their passwords, deactivate themselves and are toggled by an administrator.
NextTokens ==
    \/ \E username \in Usernames, email \in {Str.a_at_c_d, Str.b_at_c_d} :
          register_user(username, email, GoodPassword, Str.T, Str.T)
    \/ \E email \in {Str.a_at_c_d, Str.b_at_c_d} : request_password_reset(email)
    \/ \E email \in {Str.a_at_c_d, Str.b_at_c_d} : refresh_password_reset(email)
    \/ \E reset_token \in ResetTokens, new_password \in NewPasswords :
          reset_password(reset_token, new_password)
    \/ \E user_id \in UserIds : deactivate_user_account(user_id, GoodPassword)
    \/ \E user_id \in UserIds : toggle_user_active_status(user_id)

SpecTokens == InitAccounts /\ [][NextTokens]_vars

\* SpecChain: one course of one of the two accounts.  Modules are created by
\* calls that may interleave with the deletion of the course; decks are
\* created through both managers, and modules, decks and quizzes are
\* created, updated and deleted.
InitChain ==
    /\ TwoAccounts
    /\ \E owner \in UserIds :
          courses = <<[user_id |-> owner, title |-> "t0", last_updated |-> now]>>
    /\ modules = <<>>
    /\ flashcard_decks = <<>>
    /\ quizzes = <<>>
    /\ video_chapters = <<>>
    /\ nextId = [users |-> 3, courses |-> 2, modules |-> 1, flashcard_decks |-> 1,
                 quizzes |-> 1, video_chapters |-> 1]
    /\ last = Resp("create_course", ContentArgs(Null, courses[1].user_id, {}),
                   TRUE, "", "dict", [uid |-> 1])

TitlePayloads == {{<<"title", "t1">>}}

NextChain ==
    \/ \E p \in Callers, course_id \in CourseIds, user_id \in UserIds :
          create_module_check(p, course_id, user_id)
    \/ \E p \in Callers : create_module_insert(p)
    \/ \E course_id \in CourseIds, user_id \in UserIds : delete_course(course_id, user_id)
    \/ \E module_id \in ModuleIds, user_id \in UserIds, updates \in TitlePayloads :
          update_module(module_id, user_id, updates)
    \/ \E module_id \in ModuleIds, user_id \in UserIds : delete_module(module_id, user_id)
    \/ \E module_id \in ModuleIds, user_id \in UserIds :
          UserManager_create_flashcard_deck(module_id, user_id)
    \/ \E module_id \in ModuleIds, user_id \in UserIds :
          create_flashcard_deck(module_id, user_id)
    \/ \E deck_id \in DeckIds, user_id \in UserIds : delete_flashcard_deck(deck_id, user_id)
    \/ \E module_id \in ModuleIds, user_id \in UserIds : create_quiz(module_id, user_id)
    \/ \E quiz_id \in QuizIds, user_id \in UserIds, updates \in TitlePayloads :
          update_quiz(quiz_id, user_id, updates)

SpecChain == InitChain /\ [][NextChain]_vars

\* SpecMutations: one course of one of the two accounts; either account
\* creates, updates and deletes modules and content and updates and deletes
\* the course, one call after another; quizzes and video chapters go into
\* the first module, and the payloads of module and deck updates may be empty.
NextMutations ==
    \/ \E user_id \in UserIds, updates \in TitlePayloads : update_course(1, user_id, updates)
    \/ \E user_id \in UserIds : delete_course(1, user_id)
    \/ \E user_id \in UserIds : create_module(1, user_id)
    \/ \E module_id \in ModuleIds, user_id \in UserIds, updates \in TitlePayloads \cup {{}} :
          update_module(module_id, user_id, updates)
    \/ \E module_id \in ModuleIds, user_id \in UserIds : delete_module(module_id, user_id)
    \/ \E module_id \in ModuleIds, user_id \in UserIds :
          create_flashcard_deck(module_id, user_id)
    \/ \E deck_id \in DeckIds, user_id \in UserIds, updates \in TitlePayloads \cup {{}} :
          update_flashcard_deck(deck_id, user_id, updates)
    \/ \E deck_id \in DeckIds, user_id \in UserIds : delete_flashcard_deck(deck_id, user_id)
    \/ \E user_id \in UserIds : create_quiz(1, user_id)
    \/ \E quiz_id \in QuizIds, user_id \in UserIds, updates \in TitlePayloads :
          update_quiz(quiz_id, user_id, updates)
    \/ \E quiz_id \in QuizIds, user_id \in UserIds : delete_quiz(quiz_id, user_id)
    \/ \E user_id \in UserIds : create_video_chapter(1, user_id)
    \/ \E chapter_id \in ChapterIds, user_id \in UserIds, updates \in TitlePayloads :
          update_video_chapter(chapter_id, user_id, updates)
    \/ \E chapter_id \in ChapterIds, user_id \in UserIds :
          delete_video_chapter(chapter_id, user_id)

SpecMutations == InitChain /\ [][NextMutations]_vars

\* SpecCascade: two courses, the first of the first account, the modules
\* under any course, a flashcard deck under any module, a quiz under the
\* first module and a video chapter under the last.  A course or an account is deleted statement by
\* statement, a delete may raise, and no call begins while another is under
\* way.
InitCascade ==
    /\ TwoAccounts
    /\ \E u \in UserIds :
          courses = <<[user_id |-> 1, title |-> "t0", last_updated |-> now],
                      [user_id |-> u, title |-> "t0", last_updated |-> now]>>
    /\ modules \in [ModuleIds -> {[course_id |-> c, title |-> "t0", last_updated |-> now] :
                                     c \in DOMAIN courses}]
    /\ \E d \in ModuleIds :
          flashcard_decks = <<[module_id |-> d, title |-> "t0", last_updated |-> now]>>
    /\ quizzes = <<[module_id |-> 1, title |-> "t0", last_updated |-> now]>>
    /\ video_chapters = <<[module_id |-> MaxModules, title |-> "t0", last_updated |-> now]>>
    /\ nextId = [users |-> 3, courses |-> 3, modules |-> 3, flashcard_decks |-> 2,
                 quizzes |-> 2, video_chapters |-> 2]
    /\ last = Resp("create_video_chapter",
                   ContentArgs(video_chapters[1].module_id,
                               courses[modules[video_chapters[1].module_id].course_id].user_id,
                               {}),
                   TRUE, "", "dict", [uid |-> 1])

NextCascade ==
    \/ \E p \in Callers, user_id \in UserIds, password \in {GoodPassword, NonePassword} :
          delete_user_account_begin(p, user_id, password)
    \/ \E p \in Callers, course_id \in CourseIds, user_id \in UserIds :
          UserManager_delete_course_begin(p, course_id, user_id)
    \/ \E p \in Callers, course_id \in CourseIds, user_id \in UserIds :
          delete_course_begin(p, course_id, user_id)
    \/ \E p \in Callers : cascade_step(p)
    \/ \E p \in Callers : storage_error(p)

SpecCascade == InitCascade /\ [][NextCascade]_vars

\* SpecAdmin: the two accounts and the course of InitOwnership; accounts are
\* made administrators and back, delete themselves with a password and
\* delete each other as administrators.
NextAdmin ==
    \/ \E user_id \in UserIds : toggle_admin_status(user_id)
    \/ \E user_id \in UserIds, password \in LoginPasswords :
          delete_user_account(user_id, password)
    \/ \E admin_user_id \in UserIds, target_user_id \in UserIds :
          admin_delete_user(admin_user_id, target_user_id)

SpecAdmin == InitOwnership /\ [][NextAdmin]_vars

\* SpecLockout: one account registers, logs in with either password, asks
\* for password resets and resets its password; an administrator resets
\* the password and toggles the active flag.
NextLockout ==
    \/ register_user(Str.al, Str.a_at_c_d, GoodPassword, Str.T, Str.T)
    \/ \E username_or_email \in {Str.al, Str.a_at_c_d}, password \in LoginPasswords :
          login(username_or_email, password)
    \/ request_password_reset(Str.a_at_c_d)
    \/ \E reset_token \in ResetTokens : reset_password(reset_token, OtherPassword)
    \/ \E user_id \in UserIds, new_password \in LoginPasswords :
          reset_user_password_admin(user_id, new_password)
    \/ \E user_id \in UserIds : toggle_user_active_status(user_id)

SpecLockout == InitAccounts /\ [][NextLockout]_vars

\* SpecLoginRace: MaxCallers callers log in to one account side by side; the
\* read of a login and its update are two steps.
NextLoginRace ==
    \/ register_user(Str.al, Str.a_at_c_d, GoodPassword, Str.T, Str.T)
    \/ \E p \in Callers, username_or_email \in {Str.al, Str.b_at_c_d},
          password \in LoginPasswords :
          login_read(p, username_or_email, password)
    \/ \E p \in Callers : login_update(p)
    \/ Tick

SpecLoginRace == InitAccounts /\ [][NextLoginRace]_vars

\* SpecResetRace: MaxCallers callers present reset tokens of one account side
\* by side; the lookup of a reset_password and its update are two steps.
NextResetRace ==
    \/ register_user(Str.al, Str.a_at_c_d, GoodPassword, Str.T, Str.T)
    \/ request_password_reset(Str.a_at_c_d)
    \/ \E p \in Callers, reset_token \in ResetTokens, new_password \in RegisterPasswords :
          reset_password_lookup(p, reset_token, new_password)
    \/ \E p \in Callers : reset_password_update(p)
    \/ Tick

SpecResetRace == InitAccounts /\ [][NextResetRace]_vars

\* AIContentGenerator.save_notes: the note is inserted under the user id the
\* caller passed; the users collection is not read.
save_notes(user_id) ==
    /\ Len(notes) < MaxNotes
    /\ notes' = Append(notes, [user_id |-> user_id, created_at |-> now,
                               last_updated |-> now])
    /\ last' = Resp("save_notes", [user_id |-> user_id], TRUE, "", "dict",
                    [id |-> Len(notes) + 1])
    /\ streak' = NoStreak
    /\ UNCHANGED <<users, contentVars, nextId, nextToken, now, usedTokens, expiredTokens,
                   calls>>

\* SpecNotes: the two accounts of InitOwnership save notes, create courses
\* and delete their accounts.
NextNotes ==
    \/ \E user_id \in UserIds : save_notes(user_id)
    \/ \E user_id \in UserIds : create_course(user_id)
    \/ \E user_id \in UserIds, password \in DeletePasswords :
          delete_user_account(user_id, password)

SpecNotes == InitOwnership /\ [][NextNotes]_vars

\* SpecCreateRace: the first account owns a course with one module and no
\* content; callers create content in the module, in two steps each, while
\* the course or the account is deleted statement by statement.
InitCreateRace ==
    /\ TwoAccounts
    /\ courses = <<[user_id |-> 1, title |-> "t0", last_updated |-> now]>>
    /\ modules = <<[course_id |-> 1, title |-> "t0", last_updated |-> now]>>
    /\ flashcard_decks = <<>>
    /\ quizzes = <<>>
    /\ video_chapters = <<>>
    /\ nextId = [users |-> 3, courses |-> 2, modules |-> 2, flashcard_decks |-> 1,
                 quizzes |-> 1, video_chapters |-> 1]
    /\ last = Resp("create_module", ContentArgs(1, 1, {}), TRUE, "", "dict", [uid |-> 1])

NextCreateRace ==
    \/ \E p \in Callers, name \in ContentNames, module_id \in ModuleIds, user_id \in UserIds :
          create_content_verify(p, name, module_id, user_id)
    \/ \E p \in Callers : create_content_insert(p)
    \/ \E p \in Callers, user_id \in UserIds, password \in {GoodPassword, NonePassword} :
          delete_user_account_begin(p, user_id, password)
    \/ \E p \in Callers, course_id \in CourseIds, user_id \in UserIds :
          UserManager_delete_course_begin(p, course_id, user_id)
    \/ \E p \in Callers : cascade_step(p)

SpecCreateRace == InitCreateRace /\ [][NextCreateRace]_vars

\* SpecPasswords: the two accounts of InitOwnership and a user id no
\* account has; passwords are changed, to a weak password and to the
\* current one too, and the accounts log in.
NextPasswords ==
    \/ \E user_id \in 0..MaxUsers, current_password \in LoginPasswords,
          new_password \in RegisterPasswords :
          change_password(user_id, current_password, new_password)
    \/ \E username_or_email \in LoginIdentifiers, password \in LoginPasswords :
          login(username_or_email, password)

SpecPasswords == InitOwnership /\ [][NextPasswords]_vars

---------------------------------------------------------------------------
(* Claims about login and registration, checked under SpecAccounts.        *)

StoredAttempts(u) == users[u].security.failed_login_attempts

(* C1: for every account, when the five calls just made were failed logins *)
(* of that account (wrong password, nothing in between), a login of the    *)
(* account with the correct password is refused with the account-locked    *)
(* message and changes no stored document, the counter included: the test  *)
(* counter >= 5 comes before the password comparison.                      *)
C1_LockoutBeforePassword ==
    [][\A u \in DOMAIN users, id \in LoginIdentifiers, pw \in LoginPasswords :
          (/\ u \in ByLogin(id)
           /\ login_found(u, id, pw)
           /\ streak.uid = u
           /\ streak.n >= 5
           /\ checkpw(pw, users[u].password_hash))
          => (/\ ~last'.ok
              /\ last'.msg = Msg.Locked
              /\ users' = users)]_vars

(* C1 witness: the sixth login, with the correct password, has just been   *)
(* refused as locked after five failed logins in a row.                    *)
C1_Witness ==
    /\ last.op = "login"
    /\ ~last.ok
    /\ last.msg = Msg.Locked
    /\ streak.uid = last.data.uid
    /\ streak.n = 5
    /\ checkpw(last.args.password, users[last.data.uid].password_hash)
    /\ StoredAttempts(last.data.uid) = 5

(* C2: a successful login leaves the account's counter at 0 whatever it    *)
(* was before, and a failed login that comes right after a successful      *)
(* login of the same account leaves the counter at exactly 1.              *)
C2_SuccessResetsCounter ==
    [][\A u \in DOMAIN users, id \in LoginIdentifiers, pw \in LoginPasswords :
          (u \in ByLogin(id) /\ login_found(u, id, pw))
          => (/\ (last'.ok => /\ StoredAttempts(u) \in 0..4
                              /\ users'[u].security.failed_login_attempts = 0)
              /\ (/\ streak.uid = u
                  /\ streak.n = 0
                  /\ streak.reset_from # Null
                  /\ last'.msg = Msg.InvalidPassword)
                 => users'[u].security.failed_login_attempts = 1)]_vars

(* C2 witness: a successful login overwrote a counter of 4, and the failed *)
(* login right after it has left the counter at 1.                         *)
C2_Witness ==
    /\ last.op = "login"
    /\ last.msg = Msg.InvalidPassword
    /\ streak.uid = last.data.uid
    /\ streak.n = 1
    /\ streak.reset_from = 4
    /\ StoredAttempts(last.data.uid) = 1

\* The step is the register call with the arguments a.
RegisterStep(a) ==
    register_user_call(a.username, a.email, a.password, a.first_name, a.last_name)

(* C3 as stated: every register call whose username, or whose e-mail, is   *)
(* that of an existing user fails with one of the two conflict messages    *)
(* and inserts nothing.                                                    *)
C3_AsStated ==
    [][(/\ last'.op = "register_user"
        /\ RegisterStep(last'.args)
        /\ (ByUsername(last'.args.username) # {} \/ ByEmail(last'.args.email) # {}))
       => (/\ ~last'.ok
           /\ last'.msg \in {Msg.UsernameTaken, Msg.EmailRegistered}
           /\ users' = users)]_vars

(* C3 amended: a register call whose username or e-mail is that of an      *)
(* existing user always fails and inserts nothing.  The message is the     *)
(* conflict message only when e-mail format and password policy pass:      *)
(* "Username already taken" when the username matches, "Email already      *)
(* registered" when only the e-mail matches.  A malformed e-mail or a weak *)
(* password is reported first, with its own message.                       *)
C3_ConflictAfterValidation ==
    [][(/\ last'.op = "register_user"
        /\ RegisterStep(last'.args)
        /\ (ByUsername(last'.args.username) # {} \/ ByEmail(last'.args.email) # {}))
       => (/\ ~last'.ok
           /\ users' = users
           /\ last'.msg =
                 IF ~_validate_email(last'.args.email) THEN Msg.InvalidEmail
                 ELSE IF ~_validate_password(last'.args.password).ok
                      THEN _validate_password(last'.args.password).msg
                 ELSE IF ByUsername(last'.args.username) # {} THEN Msg.UsernameTaken
                 ELSE Msg.EmailRegistered)]_vars

(* C3 witness: a register call with a new username and the e-mail of an    *)
(* existing user has just failed with "Email already registered".          *)
C3_Witness ==
    /\ last.op = "register_user"
    /\ ~last.ok
    /\ last.msg = Msg.EmailRegistered
    /\ ByUsername(last.args.username) = {}
    /\ ByEmail(last.args.email) # {}

(* C4 as stated: when the call just made is a register that succeeded, a   *)
(* login with the username or the e-mail just registered and the password  *)
(* just registered succeeds.                                               *)
C4_AsStated ==
    [][\A id \in LoginIdentifiers, pw \in LoginPasswords :
          (/\ last.op = "register_user"
           /\ last.ok
           /\ id \in {last.args.username, last.args.email}
           /\ pw = last.args.password
           /\ login_call(id, pw))
          => last'.ok]_vars

(* C4, the part that holds: when the identifier matches the new account    *)
(* and no other, the login right after the register succeeds although the  *)
(* account is not verified.                                                *)
C4_UnambiguousLoginSucceeds ==
    [][\A id \in LoginIdentifiers, pw \in LoginPasswords :
          (/\ last.op = "register_user"
           /\ last.ok
           /\ id \in {last.args.username, last.args.email}
           /\ pw = last.args.password
           /\ ByLogin(id) = {last.data.id}
           /\ login_call(id, pw))
          => (last'.ok /\ ~users[last.data.id].is_verified)]_vars

(* C4 witness: a second account has registered an e-mail that is the       *)
(* username of the first, and the login with that e-mail and the new       *)
(* password was answered for the first account.                            *)
C4_Witness ==
    /\ last.op = "login"
    /\ last.msg = Msg.InvalidPassword
    /\ Cardinality(ByLogin(last.args.username_or_email)) = 2
    /\ \E u \in ByEmail(last.args.username_or_email) :
          /\ u # last.data.uid
          /\ checkpw(last.args.password, users[u].password_hash)

---------------------------------------------------------------------------
(* Claims about password recovery, checked under SpecRecovery.             *)

(* C5 as stated: the response of request_password_reset has the success    *)
(* flag and the kind of payload of the response given for an e-mail of no  *)
(* user, and a token is stored only on a user whose e-mail was given.      *)
C5_AsStated ==
    [][\A email \in {Str.a_at_c_d, Str.b_at_c_d} :
          request_password_reset_call(email)
          => (/\ last'.ok = ResetResponse(email, Null, Null).ok
              /\ last'.kind = ResetResponse(email, Null, Null).kind
              /\ \A u \in DOMAIN users :
                    users'[u] # users[u] => u \in ByEmail(email))]_vars

(* C5, the part that holds: the success flag is the same for both, and a   *)
(* token is stored only on a user whose e-mail was given; the payload is a *)
(* string for an e-mail of no user and a dictionary that carries the token *)
(* and the user id for the e-mail of an active user.                       *)
C5_TokenOnlyOnExistingUser ==
    [][\A email \in {Str.a_at_c_d, Str.b_at_c_d} :
          request_password_reset_call(email)
          => (/\ last'.ok
              /\ (ByEmail(email) = {} => (last'.kind = "str" /\ users' = users))
              /\ (ByEmail(email) # {} =>
                    /\ last'.kind = "dict"
                    /\ last'.data.user_id \in ByEmail(email)
                    /\ users'[last'.data.user_id].security.password_reset_token
                          = last'.data.token)
              /\ \A u \in DOMAIN users :
                    users'[u] # users[u] => u \in ByEmail(email))]_vars

(* C5 witness: a reset was requested for the e-mail of an existing user    *)
(* and the response is the dictionary with the stored token.               *)
C5_Witness ==
    /\ last.op = "request_password_reset"
    /\ last.kind = "dict"
    /\ ByEmail(last.args.email) # {}
    /\ users[last.data.user_id].security.password_reset_token = last.data.token

(* C6: reset_password with a token whose stored expiry is earlier than the *)
(* current time fails with the expired-token message and changes nothing;  *)
(* reset_password with a token that a successful reset has used fails with *)
(* the invalid-token message, a different one, and changes nothing.        *)
C6_ExpiredAndUsedTokens ==
    [][\A t \in ResetTokens, pw \in NewPasswords :
          reset_password_call(t, pw)
          => (/\ (/\ ByResetToken(t) # {}
                  /\ \A u \in ByResetToken(t) :
                        users[u].security.password_reset_expiry < now)
                 => (~last'.ok /\ last'.msg = Msg.ResetExpired /\ users' = users)
              /\ t \in usedTokens
                 => (~last'.ok /\ last'.msg = Msg.InvalidResetToken /\ users' = users)
              /\ Msg.InvalidResetToken # Msg.ResetExpired)]_vars

(* C6 witness: one token was refused as expired, and a token that a        *)
(* successful reset had used has just been refused as invalid.             *)
C6_Witness ==
    /\ last.op = "reset_password"
    /\ ~last.ok
    /\ last.msg = Msg.InvalidResetToken
    /\ last.args.reset_token \in usedTokens
    /\ expiredTokens # {}

---------------------------------------------------------------------------
(* Claims about the cascades, checked under SpecContent.                   *)

\* After the step, nothing of the course is left: not the course, no module
\* of it, no document whose module was a module of it before the step.
CourseGone(course_id) ==
    LET ms == ModulesOfCourse(course_id) IN
    /\ course_id \notin DOMAIN courses'
    /\ \A m \in DOMAIN modules' : modules'[m].course_id # course_id
    /\ \A d \in DOMAIN flashcard_decks' : flashcard_decks'[d].module_id \notin ms
    /\ \A d \in DOMAIN quizzes' : quizzes'[d].module_id \notin ms
    /\ \A d \in DOMAIN video_chapters' : video_chapters'[d].module_id \notin ms

(* C7 as stated: after a delete_course that returns success, of either     *)
(* manager, the course is gone, no module of the course is left, and no    *)
(* flashcard deck, quiz or video chapter of one of its modules is left.    *)
C7_AsStated ==
    [][(/\ last'.op \in {"delete_course", "AxiomUserManager.delete_course"}
        /\ last'.ok
        /\ \/ delete_course_call(last'.args.id, last'.args.user_id)
           \/ UserManager_delete_course_call(last'.args.id, last'.args.user_id))
       => CourseGone(last'.args.id)]_vars

(* C7, the part that holds: AxiomUserManager.delete_course succeeds only   *)
(* for the owner and leaves nothing of the course; delete_course of        *)
(* AxiomCourseManager, the one the command line calls, succeeds only for   *)
(* the owner and removes the course and its modules, and leaves every      *)
(* flashcard deck, quiz and video chapter where it was.                    *)
C7_UserManagerCascade ==
    [][/\ (/\ last'.op = "AxiomUserManager.delete_course"
           /\ last'.ok
           /\ UserManager_delete_course_call(last'.args.id, last'.args.user_id))
          => (/\ courses[last'.args.id].user_id = last'.args.user_id
              /\ CourseGone(last'.args.id))
       /\ (/\ last'.op = "delete_course"
           /\ last'.ok
           /\ delete_course_call(last'.args.id, last'.args.user_id))
          => (/\ courses[last'.args.id].user_id = last'.args.user_id
              /\ last'.args.id \notin DOMAIN courses'
              /\ \A m \in DOMAIN modules' : modules'[m].course_id # last'.args.id
              /\ UNCHANGED <<flashcard_decks, quizzes, video_chapters>>)]_vars

(* C7 witness: the only course ever created had two modules and a deck, a  *)
(* quiz and a chapter; AxiomUserManager.delete_course has just succeeded   *)
(* and the five collections are empty, with both accounts still there.     *)
C7_Witness ==
    /\ last.op = "AxiomUserManager.delete_course"
    /\ last.ok
    /\ DOMAIN users = {1, 2}
    /\ nextId.courses = 2
    /\ nextId.modules = 3
    /\ nextId.flashcard_decks = 2 /\ nextId.quizzes = 2 /\ nextId.video_chapters = 2
    /\ courses = <<>> /\ modules = <<>>
    /\ flashcard_decks = <<>> /\ quizzes = <<>> /\ video_chapters = <<>>

\* The documents of coll that the step removed.
Removed(coll, collNext) == DOMAIN coll \ DOMAIN collNext

(* C8: after delete_user_account succeeds the user document is gone, no    *)
(* course of the user is left, no module of those courses, no flashcard    *)
(* deck, quiz or video chapter of those modules, and the count reported    *)
(* for each of the five kinds is the number of documents of that kind the  *)
(* call removed.                                                           *)
C8_AccountCascade ==
    [][(/\ last'.op = "delete_user_account"
        /\ last'.ok
        /\ delete_user_account_call(last'.args.user_id, last'.args.password))
       =>    LET user_id == last'.args.user_id
                 cs == CoursesOfUser(user_id)
                 ms == UNION {ModulesOfCourse(c) : c \in cs}
                 counts == last'.data
             IN
             /\ user_id \notin DOMAIN users'
             /\ \A c \in DOMAIN courses' : courses'[c].user_id # user_id
             /\ \A m \in DOMAIN modules' : modules'[m].course_id \notin cs
             /\ \A d \in DOMAIN flashcard_decks' : flashcard_decks'[d].module_id \notin ms
             /\ \A d \in DOMAIN quizzes' : quizzes'[d].module_id \notin ms
             /\ \A d \in DOMAIN video_chapters' : video_chapters'[d].module_id \notin ms
             /\ counts.courses = Cardinality(Removed(courses, courses'))
             /\ counts.modules = Cardinality(Removed(modules, modules'))
             /\ counts.flashcard_decks
                   = Cardinality(Removed(flashcard_decks, flashcard_decks'))
             /\ counts.quizzes = Cardinality(Removed(quizzes, quizzes'))
             /\ counts.video_chapters
                   = Cardinality(Removed(video_chapters, video_chapters'))]_vars

(* C8 witness: an account with two courses, two modules, a deck, a quiz    *)
(* and a chapter has just been deleted, and the report says so.            *)
C8_Witness ==
    /\ last.op = "delete_user_account"
    /\ last.ok
    /\ last.args.user_id \notin DOMAIN users
    /\ last.data.courses = 2
    /\ last.data.modules = 2
    /\ last.data.flashcard_decks = 1
    /\ last.data.quizzes = 1
    /\ last.data.video_chapters = 1

---------------------------------------------------------------------------
(* The claim about ownership, checked under SpecOwnership.                 *)

ModuleResolves(module_id) ==
    module_id \in DOMAIN modules /\ modules[module_id].course_id \in DOMAIN courses
ModuleOwner(module_id) == courses[modules[module_id].course_id].user_id
\* The document id of coll exists, its chain to a user resolves and does not
\* end at user_id.
NotOwnerOf(coll, id, user_id) ==
    /\ id \in DOMAIN coll
    /\ ModuleResolves(coll[id].module_id)
    /\ ModuleOwner(coll[id].module_id) # user_id

PermissionMessages ==
    {Msg.NoPermissionUpdateCourse, Msg.NoPermissionDeleteCourse, Msg.NoPermissionUpdateModule,
     Msg.NoPermissionDeleteModule, Msg.NoPermissionModifyModule}

Denied ==
    /\ ~last'.ok
    /\ last'.msg \in PermissionMessages
    /\ UNCHANGED <<users, courses, modules, flashcard_decks, quizzes, video_chapters>>

\* The step is the call named, with the arguments a = last'.args, on a
\* document whose owner exists and is not the caller a.user_id.
NonOwnerCourseUpdate(a) ==
    /\ last'.op = "update_course"
    /\ a.id \in DOMAIN courses
    /\ courses[a.id].user_id # a.user_id
    /\ update_course(a.id, a.user_id, a.updates)
NonOwnerModuleUpdate(a) ==
    /\ last'.op = "update_module"
    /\ ModuleResolves(a.id)
    /\ ModuleOwner(a.id) # a.user_id
    /\ update_module(a.id, a.user_id, a.updates)
NonOwnerContentUpdate(a) ==
    \/ /\ last'.op = "update_flashcard_deck"
       /\ NotOwnerOf(flashcard_decks, a.id, a.user_id)
       /\ update_flashcard_deck(a.id, a.user_id, a.updates)
    \/ /\ last'.op = "update_quiz"
       /\ NotOwnerOf(quizzes, a.id, a.user_id)
       /\ update_quiz(a.id, a.user_id, a.updates)
    \/ /\ last'.op = "update_video_chapter"
       /\ NotOwnerOf(video_chapters, a.id, a.user_id)
       /\ update_video_chapter(a.id, a.user_id, a.updates)
NonOwnerDelete(a) ==
    \/ /\ last'.op \in {"delete_course", "AxiomUserManager.delete_course"}
       /\ a.id \in DOMAIN courses
       /\ courses[a.id].user_id # a.user_id
       /\ \/ delete_course(a.id, a.user_id)
          \/ UserManager_delete_course(a.id, a.user_id)
    \/ /\ last'.op = "delete_module"
       /\ ModuleResolves(a.id)
       /\ ModuleOwner(a.id) # a.user_id
       /\ delete_module(a.id, a.user_id)
    \/ /\ last'.op = "delete_flashcard_deck"
       /\ NotOwnerOf(flashcard_decks, a.id, a.user_id)
       /\ delete_flashcard_deck(a.id, a.user_id)
    \/ /\ last'.op = "delete_quiz"
       /\ NotOwnerOf(quizzes, a.id, a.user_id)
       /\ delete_quiz(a.id, a.user_id)
    \/ /\ last'.op = "delete_video_chapter"
       /\ NotOwnerOf(video_chapters, a.id, a.user_id)
       /\ delete_video_chapter(a.id, a.user_id)

(* C9 as stated: every update, with every payload, and every delete of a   *)
(* course, module, flashcard deck, quiz or video chapter by a user who is  *)
(* not the owner returns a permission-denied message and changes no        *)
(* document.                                                               *)
C9_AsStated ==
    [][(\/ NonOwnerCourseUpdate(last'.args)
        \/ NonOwnerModuleUpdate(last'.args)
        \/ NonOwnerContentUpdate(last'.args)
        \/ NonOwnerDelete(last'.args))
       => Denied]_vars

(* C9 amended: a call by a user who is not the owner never succeeds and    *)
(* changes no document.  It returns a permission-denied message for every  *)
(* delete, for every update of a flashcard deck, quiz or video chapter     *)
(* whatever the payload, and for an update of a course or module whose     *)
(* payload has a title or a description; update_course and update_module   *)
(* look at the payload first, and answer a payload without title and       *)
(* description with "No valid fields to update", owner or not.             *)
C9_DeniedUnlessEmptyPayload ==
    [][/\ (NonOwnerDelete(last'.args) \/ NonOwnerContentUpdate(last'.args)) => Denied
       /\ NonOwnerCourseUpdate(last'.args)
          => IF Filtered(last'.args.updates, CourseFields) # {} THEN Denied
             ELSE /\ ~last'.ok
                  /\ last'.msg = Msg.NoValidFields
                  /\ UNCHANGED <<users, contentVars>>
       /\ NonOwnerModuleUpdate(last'.args)
          => IF Filtered(last'.args.updates, ModuleFields) # {} THEN Denied
             ELSE /\ ~last'.ok
                  /\ last'.msg = Msg.NoValidFields
                  /\ UNCHANGED <<users, contentVars>>]_vars

(* C9 witness: update_flashcard_deck by the user who does not own the      *)
(* deck, with a payload that names no field of a deck, has just been       *)
(* refused with the permission message.                                    *)
C9_Witness ==
    /\ last.op = "update_flashcard_deck"
    /\ ~last.ok
    /\ last.msg = Msg.NoPermissionModifyModule
    /\ Filtered(last.args.updates, DeckFields) = {}
    /\ NotOwnerOf(flashcard_decks, last.args.id, last.args.user_id)

---------------------------------------------------------------------------
(* Password policy as a specification of its own: the input is drawn in    *)
(* the initial state and validate_password_step applies the function.      *)

PolicyAlphabet == {"a", "A", "1", "!"}

PolicyExamples ==
    {Str.short1A, Str.shrt1A, Str.longenough1, Str.LONGENOUGH1, Str.LongEnoughBangBang,
     Str.LongEnough1, Str.LongEnough1Bang, Str.LongEnough1Underscore, Str.weak, Str.empty}

PolicyInputs ==
    PolicyExamples \cup
    UNION {[1..n -> PolicyAlphabet] : n \in (PasswordMinLength - 1)..MaxPwLen}

InitPolicy ==
    /\ EmptyStore
    /\ \E p \in PolicyInputs :
          last = Resp("call _validate_password", [password |-> p], FALSE, "", "pending", NoData)

validate_password_step ==
    /\ last.op = "call _validate_password"
    /\ LET r == _validate_password(last.args.password) IN
          last' = Resp("_validate_password", last.args, r.ok, r.msg, "str", NoData)
    /\ UNCHANGED <<users, contentVars, nextId, nextToken, now, notes, streak, usedTokens,
                   expiredTokens, calls>>

NextPolicy == validate_password_step

SpecPolicy == InitPolicy /\ [][NextPolicy]_vars


(* C10 as stated: the six examples with the reasons the claim gives them,  *)
(* "short1A!" among them as a failure of the length check.                 *)
C10_AsStated ==
    last.op = "_validate_password" =>
        LET p == last.args.password IN
        /\ (p = Str.short1A => (~last.ok /\ last.msg = Msg.TooShort))
        /\ (p = Str.longenough1 => (~last.ok /\ last.msg = Msg.NoUpper))
        /\ (p = Str.LONGENOUGH1 => (~last.ok /\ last.msg = Msg.NoLower))
        /\ (p = Str.LongEnoughBangBang => (~last.ok /\ last.msg = Msg.NoDigit))
        /\ (p = Str.LongEnough1 => (~last.ok /\ last.msg = Msg.NoSpecial))
        /\ (p = Str.LongEnough1Bang => last.ok)

(* C10 amended: the five checks run in the order length < 8, uppercase,    *)
(* lowercase, digit, special character, and the reason returned is that of *)
(* the first check that fails; "short1A!" has 8 characters and is accepted,*)
(* the 7-character "shrt1A!" fails the length check, and the other five    *)
(* examples are as the claim states them.                                  *)
C10_FirstFailingCheck ==
    last.op = "_validate_password" =>
        LET p == last.args.password
            long == Len(p) >= 8
            up == HasChar(p, Upper)
            lo == HasChar(p, Lower)
            dg == HasChar(p, Digit)
            sp == HasChar(p, Special)
        IN
        /\ last.ok <=> (long /\ up /\ lo /\ dg /\ sp)
        /\ last.ok => last.msg = Msg.PasswordValid
        /\ (last.msg = Msg.TooShort) <=> ~long
        /\ (last.msg = Msg.NoUpper) <=> (long /\ ~up)
        /\ (last.msg = Msg.NoLower) <=> (long /\ up /\ ~lo)
        /\ (last.msg = Msg.NoDigit) <=> (long /\ up /\ lo /\ ~dg)
        /\ (last.msg = Msg.NoSpecial) <=> (long /\ up /\ lo /\ dg /\ ~sp)
        /\ (p = Str.short1A => last.ok)
        /\ (p = Str.shrt1A => (~last.ok /\ last.msg = Msg.TooShort))
        /\ (p = Str.longenough1 => (~last.ok /\ last.msg = Msg.NoUpper))
        /\ (p = Str.LONGENOUGH1 => (~last.ok /\ last.msg = Msg.NoLower))
        /\ (p = Str.LongEnoughBangBang => (~last.ok /\ last.msg = Msg.NoDigit))
        /\ (p = Str.LongEnough1 => (~last.ok /\ last.msg = Msg.NoSpecial))
        /\ (p = Str.LongEnough1Bang => last.ok)

C10_Witness ==
    /\ last.op = "_validate_password"
    /\ last.args.password = Str.short1A
    /\ Len(last.args.password) = 8
    /\ last.ok
    /\ last.msg = Msg.PasswordValid

---------------------------------------------------------------------------
(* The claim about racing registrations, checked under SpecRace.           *)

UniqueUsers ==
    \A u, v \in DOMAIN users :
        u # v => (users[u].username # users[v].username /\ users[u].email # users[v].email)

\* Callers p and q have both passed the pre-checks and are about to insert
\* the same username or the same e-mail.
Racing(p, q) ==
    /\ p # q
    /\ calls[p].pc = "insert_one"
    /\ calls[q].pc = "insert_one"
    /\ \/ calls[p].args.username = calls[q].args.username
       \/ calls[p].args.email = calls[q].args.email

(* C11: in every reachable state no two user documents share a username    *)
(* and no two share an e-mail, also when registrations interleave between  *)
(* pre-check and insert: an insert whose username or e-mail has been       *)
(* inserted since the pre-check is refused by the unique index, the caller *)
(* gets the generic "Database error" and nothing is stored; when one of    *)
(* two racing callers has inserted, the other one's insert is such a one.  *)
C11_UniqueUnderRace ==
    /\ []UniqueUsers
    /\ [][\A p \in Callers :
             (calls[p].pc = "insert_one" /\ register_user_insert(p))
             => /\ (ByUsername(calls[p].args.username) # {}
                       \/ ByEmail(calls[p].args.email) # {})
                   => (/\ ~last'.ok
                       /\ last'.msg = Msg.DatabaseError
                       /\ users' = users)
                /\ \A q \in Callers :
                      (Racing(p, q) /\ last'.ok)
                      => \E u \in DOMAIN users' :
                            \/ users'[u].username = calls'[q].args.username
                            \/ users'[u].email = calls'[q].args.email]_vars

(* C11 witness: two callers passed the pre-checks with the same username    *)
(* and different e-mails; one has inserted, and the other has just got     *)
(* "Database error" from its insert.                                       *)
C11_Witness ==
    /\ last.op = "register_user"
    /\ ~last.ok
    /\ last.msg = Msg.DatabaseError
    /\ calls[last.data.caller] = Idle
    /\ \E u \in DOMAIN users :
          /\ users[u].username = last.args.username
          /\ users[u].email # last.args.email
    /\ UniqueUsers

---------------------------------------------------------------------------
(* The claim about deactivation, checked under SpecDeactivation.           *)

---------------------------------------------------------------------------
(* More claims about password recovery, checked under SpecRecovery.        *)

IssuedTokens == 1..(nextToken - 1)

(* C13: cancel_password_reset with the account's password and a token      *)
(* pending succeeds, clears token and expiry and leaves the password hash; *)
(* with a wrong password, or with no token pending, it fails and changes   *)
(* nothing.  A reset_password with the token that was pending fails with   *)
(* the invalid-token message and changes nothing, right after the cancel   *)
(* and ever after: a token that no user holds is never stored again.       *)
C13_CancelInvalidatesToken ==
    [][/\ (/\ last'.op = "cancel_password_reset"
           /\ last'.args.user_id \in DOMAIN users
           /\ cancel_password_reset(last'.args.user_id, last'.args.current_password))
          => LET u == last'.args.user_id
                 t == users[u].security.password_reset_token
             IN
             IF checkpw(last'.args.current_password, users[u].password_hash) /\ t # Null
             THEN /\ last'.ok
                  /\ users'[u].security.password_reset_token = Null
                  /\ users'[u].security.password_reset_expiry = Null
                  /\ users'[u].password_hash = users[u].password_hash
                  /\ \A v \in DOMAIN users' : users'[v].security.password_reset_token # t
             ELSE /\ ~last'.ok
                  /\ users' = users
                  /\ last'.msg = IF t = Null /\ checkpw(last'.args.current_password,
                                                        users[u].password_hash)
                                 THEN Msg.NoActiveReset
                                 ELSE Msg.CurrentPasswordIncorrect
       /\ (/\ last'.op = "reset_password"
           /\ reset_password(last'.args.reset_token, last'.args.new_password)
           /\ \/ last.op = "cancel_password_reset" /\ last.ok
                 /\ last.data.token = last'.args.reset_token
              \/ ByResetToken(last'.args.reset_token) = {})
          => (/\ ~last'.ok
              /\ last'.msg = Msg.InvalidResetToken
              /\ users' = users)
       /\ \A t \in IssuedTokens : ByResetToken(t) = {} => ByResetToken(t)' = {}]_vars

(* C13 witness: the latest token issued was not used and no later request  *)
(* replaced it: it was cancelled, and a reset_password with it has just    *)
(* failed as invalid, the password being the one registered.               *)
C13_Witness ==
    /\ last.op = "reset_password"
    /\ ~last.ok
    /\ last.msg = Msg.InvalidResetToken
    /\ last.args.reset_token = nextToken - 1
    /\ last.args.reset_token >= 1
    /\ last.args.reset_token \notin usedTokens
    /\ _validate_password(last.args.new_password).ok
    /\ \A u \in DOMAIN users : checkpw(GoodPassword, users[u].password_hash)
    /\ users # <<>>

(* C14: after a reset_password with a token that has not expired and a new *)
(* password that passes the policy, the account's reset token and expiry   *)
(* are cleared, its failed-attempt counter is 0 and its hash is that of    *)
(* the new password.  A login of the (active) account right after succeeds *)
(* with the new password, also when the counter was 5 or more before the   *)
(* reset, and fails with "Invalid password" with any other password, the   *)
(* old one included when it differs from the new one.                      *)
C14_ResetUnlocks ==
    [][/\ (/\ last'.op = "reset_password"
           /\ reset_password(last'.args.reset_token, last'.args.new_password)
           /\ ByResetToken(last'.args.reset_token) # {}
           /\ \A u \in ByResetToken(last'.args.reset_token) :
                 now <= users[u].security.password_reset_expiry
           /\ _validate_password(last'.args.new_password).ok)
          => (/\ last'.ok
              /\ last'.data.uid \in ByResetToken(last'.args.reset_token)
              /\ LET user == users'[last'.data.uid] IN
                 /\ user.security.password_reset_token = Null
                 /\ user.security.password_reset_expiry = Null
                 /\ user.security.failed_login_attempts = 0
                 /\ checkpw(last'.args.new_password, user.password_hash))
       /\ (/\ last.op = "reset_password"
           /\ last.ok
           /\ last'.op = "login"
           /\ last'.data.uid = last.data.uid
           /\ users[last.data.uid].is_active
           /\ login(last'.args.username_or_email, last'.args.password))
          => IF last'.args.password = last.args.new_password
             THEN last'.ok /\ users'[last.data.uid].security.failed_login_attempts = 0
             ELSE /\ ~last'.ok
                  /\ last'.msg = Msg.InvalidPassword
                  /\ users'[last.data.uid].security.failed_login_attempts = 1]_vars

(* C14 witness: an account locked by five failed logins has just reset its *)
(* password; the counter is 0, the token is cleared, the registered        *)
(* password no longer matches and the new one does.                        *)
C14_Witness ==
    /\ last.op = "reset_password"
    /\ last.ok
    /\ last.data.pre >= LockoutThreshold
    /\ StoredAttempts(last.data.uid) = 0
    /\ users[last.data.uid].security.password_reset_token = Null
    /\ ~checkpw(GoodPassword, users[last.data.uid].password_hash)
    /\ checkpw(last.args.new_password, users[last.data.uid].password_hash)

---------------------------------------------------------------------------
(* The claim about e-mail verification, checked under SpecVerification.    *)

(* C15: verify_email fails with the invalid-token message when no user     *)
(* holds the token, and with the expired-token message when the time is    *)
(* past the expiry stored with it; both leave every document as it was,    *)
(* the holder unverified with its token.  Otherwise it succeeds, sets      *)
(* is_verified and clears the token of the holder.  A verify_email with a  *)
(* token that has verified an account fails with the invalid-token         *)
(* message: no user holds it, and a token no user holds is never stored    *)
(* again.                                                                  *)
C15_VerifyOnce ==
    [][/\ (/\ last'.op = "verify_email"
           /\ verify_email(last'.args.verification_token))
          => LET t == last'.args.verification_token
                 holders == ByVerificationToken(t)
             IN
             IF holders = {} \/ (last.op = "verify_email" /\ last.ok
                                 /\ last.args.verification_token = t)
             THEN ~last'.ok /\ last'.msg = Msg.InvalidVerificationToken /\ users' = users
             ELSE \E u \in holders :
                    /\ ~users[u].is_verified
                    /\ IF now > users[u].verification_token_expiry
                       THEN /\ ~last'.ok
                            /\ last'.msg = Msg.VerificationExpired
                            /\ users' = users
                       ELSE /\ last'.ok
                            /\ users'[u].is_verified
                            /\ users'[u].verification_token = NoneToken
                            /\ \A v \in DOMAIN users \ {u} : users'[v] = users[v]
                            /\ \A v \in DOMAIN users' : users'[v].verification_token # t
       /\ \A t \in VerificationTokens :
             (t[2] \in DOMAIN users /\ ByVerificationToken(t) = {})
             => \A v \in DOMAIN users' : users'[v].verification_token # t]_vars

(* C15 witness: one account is verified and its token has just been        *)
(* refused as invalid at the second use; the token of the other account    *)
(* is still in place, past its expiry, and the account unverified.         *)
C15_Witness ==
    /\ last.op = "verify_email"
    /\ ~last.ok
    /\ last.msg = Msg.InvalidVerificationToken
    /\ last.args.verification_token[2] \in DOMAIN users
    /\ users[last.args.verification_token[2]].is_verified
    /\ users[last.args.verification_token[2]].verification_token = NoneToken
    /\ \E u \in DOMAIN users :
          /\ ~users[u].is_verified
          /\ users[u].verification_token # NoneToken
          /\ now > users[u].verification_token_expiry

---------------------------------------------------------------------------
(* The claim about the single reset token, checked under SpecTokens.       *)

\* The step is request_password_reset, or refresh_password_reset, with the
\* e-mail of the user u.
RequestFor(u) ==
    /\ last'.op = "request_password_reset"
    /\ u \in ByEmail(last'.args.email)
    /\ request_password_reset(last'.args.email)

\* No user holds the reset token t after the step.
NotHeldNext(t) == \A v \in DOMAIN users' : users'[v].security.password_reset_token # t

---------------------------------------------------------------------------
(* Claims about the chain content -> module -> course, checked under       *)
(* SpecChain.                                                              *)

ModuleArgOps == {"update_module", "delete_module", "create_flashcard_deck",
                 "create_quiz", "AxiomUserManager.create_flashcard_deck"}
DeckOps == {"update_flashcard_deck", "delete_flashcard_deck"}
QuizOps == {"update_quiz"}

\* The module a call resolves before it compares the owner; Null when the
\* content document it names is missing.
ChainModule(a) ==
    LET via(coll) == IF a.args.id \in DOMAIN coll THEN coll[a.args.id].module_id ELSE Null
    IN  IF a.op \in ModuleArgOps THEN a.args.id
        ELSE IF a.op \in DeckOps THEN via(flashcard_decks)
        ELSE IF a.op \in QuizOps THEN via(quizzes)
        ELSE Null

\* The step is a whole call on the chain, of module m.
ChainCall(m) ==
    /\ UNCHANGED calls
    /\ last'.op \in ModuleArgOps \cup DeckOps \cup QuizOps
    /\ m = ChainModule(last')
    /\ m # Null

ReturnedNotFound(msgs) ==
    /\ last'.kind = "str"
    /\ ~last'.ok
    /\ last'.msg \in msgs
    /\ UNCHANGED <<users, contentVars>>

\* C17 as stated: every module or content call whose module is missing
\* returns "Module not found", and every one whose module names a missing
\* course returns a course-not-found message; neither writes anything.
C17_AsStated ==
    [][\A m \in ModuleIds : ChainCall(m) =>
          /\ m \notin DOMAIN modules => ReturnedNotFound({Msg.ModuleNotFound})
          /\ (m \in DOMAIN modules /\ modules[m].course_id \notin DOMAIN courses)
                => ReturnedNotFound({Msg.AssociatedCourseNotFound, Msg.CourseNotFound})
      ]_vars

\* C17, what the code does: a missing module is reported as "Module not
\* found" by every call; a missing course is reported as "Associated course
\* not found" by the calls of the course and content managers, and raises
\* TypeError out of AxiomUserManager.create_flashcard_deck.  No such call
\* writes anything.
C17_RaisesOnMissingCourse ==
    [][\A m \in ModuleIds : ChainCall(m) =>
          /\ m \notin DOMAIN modules => ReturnedNotFound({Msg.ModuleNotFound})
          /\ (m \in DOMAIN modules /\ modules[m].course_id \notin DOMAIN courses)
                => IF last'.op = "AxiomUserManager.create_flashcard_deck"
                   THEN /\ last'.kind = "raise"
                        /\ last'.msg = Msg.TypeError
                        /\ UNCHANGED <<users, contentVars>>
                   ELSE ReturnedNotFound({Msg.AssociatedCourseNotFound})
      ]_vars

\* AxiomUserManager.create_flashcard_deck has raised on a module that is in
\* the store while its course is not.
C17_Witness ==
    /\ last.op = "AxiomUserManager.create_flashcard_deck"
    /\ last.kind = "raise"
    /\ last.args.id \in DOMAIN modules
    /\ modules[last.args.id].course_id \notin DOMAIN courses

---------------------------------------------------------------------------
(* A claim about the order of checks and writes, checked under             *)
(* SpecMutations.                                                          *)

CourseArgOps == {"update_course", "delete_course", "create_module"}
ModuleCallOps == {"update_module", "delete_module", "create_flashcard_deck",
                  "create_quiz", "create_video_chapter"}
ContentCallOps == [flashcard_decks |-> {"update_flashcard_deck", "delete_flashcard_deck"},
                   quizzes |-> {"update_quiz", "delete_quiz"},
                   video_chapters |-> {"update_video_chapter", "delete_video_chapter"}]
MutatingOps == CourseArgOps \cup ModuleCallOps \cup ContentCallOps.flashcard_decks
               \cup ContentCallOps.quizzes \cup ContentCallOps.video_chapters

NotFoundMessages ==
    {Msg.CourseNotFound, Msg.ModuleNotFound, Msg.AssociatedCourseNotFound,
     Msg.DeckNotFound, Msg.QuizNotFound, Msg.ChapterNotFound}

DenialMessages == PermissionMessages \cup {Msg.NoPermissionAddModule}

\* The documents the call a looks up all exist: the document it names, the
\* module of a content document, the course of a module.
ChainExists(a) ==
    LET content(coll) == a.args.id \in DOMAIN coll /\ ModuleResolves(coll[a.args.id].module_id)
    IN  IF a.op \in CourseArgOps THEN a.args.id \in DOMAIN courses
        ELSE IF a.op \in ModuleCallOps THEN ModuleResolves(a.args.id)
        ELSE IF a.op \in ContentCallOps.flashcard_decks THEN content(flashcard_decks)
        ELSE IF a.op \in ContentCallOps.quizzes THEN content(quizzes)
        ELSE content(video_chapters)

\* The user_id of the course the chain of the call a ends at.
ChainOwner(a) ==
    IF a.op \in CourseArgOps THEN courses[a.args.id].user_id
    ELSE IF a.op \in ModuleCallOps THEN ModuleOwner(a.args.id)
    ELSE IF a.op \in ContentCallOps.flashcard_decks
         THEN ModuleOwner(flashcard_decks[a.args.id].module_id)
    ELSE IF a.op \in ContentCallOps.quizzes THEN ModuleOwner(quizzes[a.args.id].module_id)
    ELSE ModuleOwner(video_chapters[a.args.id].module_id)

\* C18: every create, update and delete of a flashcard deck, quiz, video
\* chapter or module and every update and delete of a course looks up its
\* documents, then compares the owner, then writes: a call that returns a
\* not-found message found a document of its chain missing, a call that
\* returns a permission message found the chain and another owner, both
\* leave every collection as it was, and a call that succeeds found the
\* chain and was made by the owner.
C18_ChecksBeforeWrites ==
    [][last'.op \in MutatingOps =>
          /\ last'.msg \in NotFoundMessages
                => /\ ~last'.ok
                   /\ ~ChainExists(last')
                   /\ UNCHANGED <<users, contentVars, nextId>>
          /\ last'.msg \in DenialMessages
                => /\ ~last'.ok
                   /\ ChainExists(last')
                   /\ ChainOwner(last') # last'.args.user_id
                   /\ UNCHANGED <<users, contentVars, nextId>>
          /\ ~ChainExists(last') => last'.msg \in NotFoundMessages \cup {Msg.NoValidFields}
          /\ last'.ok => ChainExists(last') /\ ChainOwner(last') = last'.args.user_id
      ]_vars

\* C18 witness: a quiz is in the store, under a module of the course, and
\* the account that does not own the course has just been refused its
\* deletion.
C18_Witness ==
    /\ last.op = "delete_quiz"
    /\ last.msg = Msg.NoPermissionModifyModule
    /\ last.args.id \in DOMAIN quizzes
    /\ ModuleResolves(quizzes[last.args.id].module_id)
    /\ ModuleOwner(quizzes[last.args.id].module_id) # last.args.user_id

---------------------------------------------------------------------------
(* Claims about the cascades statement by statement, checked under         *)
(* SpecCascade.                                                            *)

ContentHasModules ==
    /\ \A d \in DOMAIN flashcard_decks : flashcard_decks[d].module_id \in DOMAIN modules
    /\ \A q \in DOMAIN quizzes : quizzes[q].module_id \in DOMAIN modules
    /\ \A v \in DOMAIN video_chapters : video_chapters[v].module_id \in DOMAIN modules

ModulesHaveCourses ==
    /\ \A m \in DOMAIN modules : modules[m].course_id \in DOMAIN courses
    /\ \A c \in DOMAIN courses : courses[c].user_id \in DOMAIN users

\* Some caller is inside AxiomCourseManager.delete_course.
InCourseManagerCascade ==
    \E p \in Callers : calls[p].pc # "idle" /\ calls[p].op = "delete_course"

\* C19 as stated: in every state of a cascade of delete_course or
\* delete_user_account, finished, under way or interrupted, every flashcard
\* deck, quiz and video chapter has its module, every module its course and
\* every course its user.
C19_AsStated == ContentHasModules /\ ModulesHaveCourses

\* C19, what the code does: every module has its course and every course
\* its user in every state, and the statements of delete_user_account and of
\* AxiomUserManager.delete_course keep every content document with its
\* module; AxiomCourseManager.delete_course deletes modules and leaves
\* their content.
C19_ChildrenFirstInFullCascades ==
    /\ []ModulesHaveCourses
    /\ [][(ContentHasModules /\ ~InCourseManagerCascade) => ContentHasModules']_vars

\* C19 witness: delete_user_account has deleted content and modules and is
\* about to delete the courses of the account.
C19_Witness ==
    \E p \in Callers :
        /\ calls[p].pc = "courses"
        /\ calls[p].op = "delete_user_account"
        /\ calls[p].deletion_counts.modules > 0
        /\ calls[p].deletion_counts.flashcard_decks > 0
        /\ CoursesOfUser(calls[p].args.user_id) # {}
        /\ ContentHasModules

\* The step is a delete of the cascade of caller p that raised.
FailedDelete(p) ==
    /\ calls[p].pc \in DeletePcs
    /\ calls'[p] = Idle
    /\ ~last'.ok

\* The collection named name is as before, but for documents of targets
\* when the failed delete was on it.
OnlyLost(name, coll, collNext, pc, targets) ==
    /\ DOMAIN collNext \subseteq DOMAIN coll
    /\ \A i \in DOMAIN collNext : collNext[i] = coll[i]
    /\ Removed(coll, collNext) \subseteq (IF name = pc THEN targets ELSE {})

\* C20: when a delete of a cascade of delete_course or delete_user_account
\* raises, the call returns failure with the message of its except clause
\* ("Database error", "Error deleting account") and runs no further
\* statement; no document is put back, no document is lost but documents
\* the failed delete was to remove, and the course of delete_course and the
\* user of delete_user_account are still in the store.
C20_FailureHaltsNoRollback ==
    [][\A p \in Callers : FailedDelete(p) =>
          LET f == calls[p]
              t == CascadeTarget(f)
          IN
          /\ last'.op = f.op /\ last'.args = f.args /\ last'.kind = "str"
          /\ last'.msg = (IF f.op = "delete_user_account" THEN Msg.ErrorDeletingAccount
                          ELSE Msg.DatabaseError)
          /\ \A q \in Callers : calls'[q] = Idle
          /\ OnlyLost("flashcard_decks", flashcard_decks, flashcard_decks', f.pc, t)
          /\ OnlyLost("quizzes", quizzes, quizzes', f.pc, t)
          /\ OnlyLost("video_chapters", video_chapters, video_chapters', f.pc, t)
          /\ OnlyLost("modules", modules, modules', f.pc, t)
          /\ OnlyLost("courses", courses, courses', f.pc, t)
          /\ OnlyLost("users", users, users', f.pc, t)
          /\ IF f.op = "delete_user_account" THEN f.args.user_id \in DOMAIN users'
             ELSE f.args.id \in DOMAIN courses'
      ]_vars

\* C20 witness: delete_user_account has failed after the flashcard deck was
\* deleted; the quiz under a course of the account, the course and the
\* account are still in the store.
C20_Witness ==
    /\ last.op = "delete_user_account"
    /\ ~last.ok
    /\ last.msg = Msg.ErrorDeletingAccount
    /\ \A p \in Callers : calls[p] = Idle
    /\ DOMAIN flashcard_decks = {}
    /\ 1 \in DOMAIN quizzes
    /\ ModuleResolves(quizzes[1].module_id)
    /\ ModuleOwner(quizzes[1].module_id) = last.args.user_id
    /\ last.args.user_id \in DOMAIN users

---------------------------------------------------------------------------
(* A claim about who may delete an account, checked under SpecAdmin.       *)

\* C21: delete_user_account with a password that does not match returns
\* "Invalid password" and deletes nothing; admin_delete_user by a user who is
\* missing or has no is_admin flag returns an error and deletes nothing;
\* admin_delete_user by an administrator deletes the target and everything
\* under its courses whatever the target's password; so a user document
\* leaves the store only in a call carrying its password or made by an
\* administrator.
C21_DeletionAuthorized ==
    /\ [][(/\ last'.op = "delete_user_account"
           /\ last'.args.password # NonePassword
           /\ last'.args.user_id \in DOMAIN users
           /\ ~checkpw(last'.args.password, users[last'.args.user_id].password_hash))
          => /\ ~last'.ok
             /\ last'.msg = Msg.InvalidPassword
             /\ UNCHANGED <<users, contentVars>>]_vars
    /\ [][last'.op = "admin_delete_user"
          => /\ ~last'.ok
             /\ UNCHANGED <<users, contentVars>>
             /\ LET a == last'.args.admin_user_id IN
                IF a \notin DOMAIN users THEN last'.msg = Msg.AdminNotFound
                ELSE ~users[a].is_admin /\ last'.msg = Msg.AdminRequired]_vars
    /\ [][(/\ last'.op = "delete_user_account"
           /\ last'.args.password = NonePassword
           /\ last'.args.user_id \in DOMAIN users)
          => LET t == last'.args.user_id
                 cs == CoursesOfUser(t)
                 ms == UNION {ModulesOfCourse(c) : c \in cs}
             IN
             /\ \E a \in DOMAIN users : users[a].is_admin
             /\ last'.ok
             /\ users' = Without(users, {t})
             /\ courses' = Without(courses, cs)
             /\ modules' = Without(modules, ms)
             /\ flashcard_decks' = Without(flashcard_decks, InModules(flashcard_decks, ms))
             /\ quizzes' = Without(quizzes, InModules(quizzes, ms))
             /\ video_chapters' = Without(video_chapters, InModules(video_chapters, ms))]_vars
    /\ [][\A t \in DOMAIN users : t \notin DOMAIN users'
          => /\ last'.op = "delete_user_account"
             /\ last'.args.user_id = t
             /\ \/ checkpw(last'.args.password, users[t].password_hash)
                \/ /\ last'.args.password = NonePassword
                   /\ \E a \in DOMAIN users : users[a].is_admin]_vars

\* C21 witness: an administrator has deleted the other account, which owned
\* the course, and the course is gone.
C21_Witness ==
    /\ last.op = "delete_user_account"
    /\ last.args.password = NonePassword
    /\ last.ok
    /\ last.args.user_id \notin DOMAIN users
    /\ \E a \in DOMAIN users : users[a].is_admin /\ a # last.args.user_id
    /\ DOMAIN courses = {}
    /\ last.data.courses = 1

---------------------------------------------------------------------------
(* A claim about leaving the lockout, checked under SpecLockout.           *)

\* C22: while the failed-attempt counter of an active account is 5 or more,
\* every login of the account, with the right password too, returns the
\* account-locked message and writes nothing; the counter of a locked
\* account changes only in reset_password or in the administrator's
\* password reset, which set it to 0.
C22_LockedUntilReset ==
    /\ [][(/\ last'.op = "login"
           /\ last'.data.uid \in DOMAIN users
           /\ users[last'.data.uid].is_active
           /\ StoredAttempts(last'.data.uid) >= LockoutThreshold)
          => /\ ~last'.ok
             /\ last'.msg = Msg.Locked
             /\ users' = users]_vars
    /\ [][\A u \in DOMAIN users :
            (/\ StoredAttempts(u) >= LockoutThreshold
             /\ users'[u].security.failed_login_attempts # StoredAttempts(u))
            => /\ last'.op \in {"reset_password", "reset_user_password_admin"}
               /\ last'.ok
               /\ users'[u].security.failed_login_attempts = 0]_vars

\* C22 witness: the account is active, its counter is 5, and a login with
\* the password that matches its hash has just been refused as locked.
C22_Witness ==
    /\ last.op = "login"
    /\ last.msg = Msg.Locked
    /\ last.data.uid \in DOMAIN users
    /\ users[last.data.uid].is_active
    /\ StoredAttempts(last.data.uid) = LockoutThreshold
    /\ checkpw(last.args.password, users[last.data.uid].password_hash)

---------------------------------------------------------------------------
(* A claim about the order of the checks of login, checked under           *)
(* SpecLockout.                                                            *)

\* C23: login answers "Invalid username or email" when no user has the
\* identifier as username or email; else "Account is disabled" when the user
\* found is inactive; else the account-locked message when its counter is 5
\* or more; these three write nothing.  Only then the password is compared:
\* a mismatch adds exactly 1 to the counter and changes nothing else, a match
\* sets last_login and puts the counter to 0.
C23_LoginCheckOrder ==
    [][last'.op = "login" =>
          LET found == ByLogin(last'.args.username_or_email)
              u == last'.data.uid
          IN
          IF found = {}
          THEN ~last'.ok /\ last'.msg = Msg.NoSuchUser /\ users' = users
          ELSE
             /\ u \in found
             /\ IF ~users[u].is_active
                THEN ~last'.ok /\ last'.msg = Msg.Disabled /\ users' = users
                ELSE IF StoredAttempts(u) >= LockoutThreshold
                THEN ~last'.ok /\ last'.msg = Msg.Locked /\ users' = users
                ELSE IF checkpw(last'.args.password, users[u].password_hash)
                THEN /\ last'.ok
                     /\ users' = [users EXCEPT ![u].last_login = now,
                                               ![u].security.failed_login_attempts = 0]
                ELSE /\ ~last'.ok
                     /\ last'.msg = Msg.InvalidPassword
                     /\ users' = [users EXCEPT
                                     ![u].security.failed_login_attempts = @ + 1]
      ]_vars

\* C23 witness: an inactive account with five failed attempts has just been
\* refused as disabled, with a password that does not match.
C23_Witness ==
    /\ last.op = "login"
    /\ last.msg = Msg.Disabled
    /\ last.data.uid \in DOMAIN users
    /\ ~users[last.data.uid].is_active
    /\ StoredAttempts(last.data.uid) = LockoutThreshold
    /\ ~checkpw(last.args.password, users[last.data.uid].password_hash)

---------------------------------------------------------------------------
(* A claim about change_password, checked under SpecPasswords.             *)

\* C24: change_password answers "User not found" for an unknown user id;
\* else "Current password is incorrect" when the current password does not
\* match the stored hash, whatever the new password; else the reason of the
\* password policy when the new password is weak; the three leave every user
\* document as it was.  Otherwise the hash is replaced, and the next login of
\* the account, active and not locked, succeeds exactly with the new
\* password: with the old one it fails unless the two are the same.
C24_ChangePassword ==
    /\ [][last'.op = "change_password" =>
            LET a == last'.args
                pv == _validate_password(a.new_password)
            IN
            IF a.user_id \notin DOMAIN users
            THEN ~last'.ok /\ last'.msg = Msg.UserNotFound /\ users' = users
            ELSE IF ~checkpw(a.current_password, users[a.user_id].password_hash)
            THEN ~last'.ok /\ last'.msg = Msg.CurrentPasswordIncorrect /\ users' = users
            ELSE IF ~pv.ok
            THEN ~last'.ok /\ last'.msg = pv.msg /\ users' = users
            ELSE /\ last'.ok
                 /\ checkpw(a.new_password, users'[a.user_id].password_hash)
                 /\ a.current_password # a.new_password
                       => ~checkpw(a.current_password, users'[a.user_id].password_hash)
                 /\ \A v \in DOMAIN users \ {a.user_id} : users'[v] = users[v]
        ]_vars
    /\ [][(/\ last.op = "change_password"
           /\ last.ok
           /\ last'.op = "login"
           /\ last'.data.uid = last.args.user_id
           /\ users[last.args.user_id].is_active
           /\ StoredAttempts(last.args.user_id) < LockoutThreshold)
          => IF last'.args.password = last.args.new_password
             THEN last'.ok
             ELSE ~last'.ok /\ last'.msg = Msg.InvalidPassword]_vars

\* C24 witness: the first account has changed its password and has then
\* been refused a login with the password it registered with.
C24_Witness ==
    /\ last.op = "login"
    /\ last.msg = Msg.InvalidPassword
    /\ last.data.uid = 1
    /\ last.args.password = GoodPassword
    /\ checkpw(OtherPassword, users[1].password_hash)
    /\ users[1].password_hash.salt = gensalt("change_password", 1)

---------------------------------------------------------------------------
(* A claim about logins side by side, checked under SpecLoginRace.         *)

\* C25 as stated: in every reachable state the failed-attempt counter of every
\* account is between 0 and 5, also when logins of one account interleave.
C25_AsStated ==
    \A u \in DOMAIN users :
        /\ StoredAttempts(u) >= 0
        /\ StoredAttempts(u) <= LockoutThreshold

\* C25, amended: the counter is never negative and never more than 4 plus the
\* number of callers logging in side by side, each of which may have passed
\* the lockout check before any of the others wrote; and a login between whose
\* read and update no one else wrote the counter leaves it at 5 at most.
C25_BoundedByCallers ==
    /\ [](\A u \in DOMAIN users :
            /\ StoredAttempts(u) >= 0
            /\ StoredAttempts(u) <= LockoutThreshold - 1 + MaxCallers)
    /\ [][\A p \in Callers :
            (/\ calls[p].pc = "login_update"
             /\ calls'[p] = Idle
             /\ calls[p].uid \in DOMAIN users
             /\ StoredAttempts(calls[p].uid) = calls[p].pre)
            => /\ calls[p].uid \in DOMAIN users'
               /\ users'[calls[p].uid].security.failed_login_attempts <= LockoutThreshold
         ]_vars

\* C25 witness: two wrong-password logins both read the counter at 4, and the
\* update of the second has just taken it to 6.
C25_Witness ==
    /\ last.op = "login"
    /\ last.msg = Msg.InvalidPassword
    /\ last.data.pre = LockoutThreshold - 1
    /\ last.data.uid \in DOMAIN users
    /\ StoredAttempts(last.data.uid) = LockoutThreshold + 1

---------------------------------------------------------------------------
(* A claim about resets side by side, checked under SpecResetRace.         *)

\* C26 as stated: a reset token resets a password at most once, also when
\* two reset_password calls with the token interleave: no reset_password
\* returns success for a token an earlier call has returned success for.
C26_AsStated ==
    [][\A p \in Callers :
         (/\ calls[p].pc = "reset_password_update"
          /\ calls'[p] = Idle
          /\ last'.ok)
         => calls[p].args.reset_token \notin usedTokens]_vars

\* C26, what the code keeps: a reset_password that starts after a success for
\* its token is refused with "Invalid reset token"; a token has a second
\* success only from a call whose lookup came before the first update, and
\* every success leaves the account with the hash of the password that call
\* carried, without token and with counter 0.
C26_OncePerLookup ==
    /\ [][\A p \in Callers :
            (calls[p] = Idle /\ calls'[p].pc = "reset_password_update")
            => calls'[p].args.reset_token \notin usedTokens]_vars
    /\ [][(/\ last'.op = "reset_password"
           /\ last' # last
           /\ UNCHANGED calls
           /\ last'.args.reset_token \in usedTokens)
          => ~last'.ok /\ last'.msg = Msg.InvalidResetToken]_vars
    /\ [][\A p \in Callers :
            (calls[p].pc = "reset_password_update" /\ calls'[p] = Idle)
            => /\ last'.ok
               /\ calls[p].uid \in DOMAIN users'
               /\ checkpw(calls[p].args.new_password, users'[calls[p].uid].password_hash)
               /\ users'[calls[p].uid].security.password_reset_token = Null
               /\ users'[calls[p].uid].security.failed_login_attempts = 0]_vars

\* C26 witness: a reset_password has returned success for a token that was no
\* longer stored when its update ran, another call's update having cleared it.
C26_Witness ==
    /\ last.op = "reset_password"
    /\ last.ok
    /\ ~last.data.held
    /\ last.args.reset_token \in usedTokens

---------------------------------------------------------------------------
(* A claim about references after whole calls, checked under SpecContent.  *)

\* The flashcard decks, quizzes and video chapters that name module m.
ContentOfModule(m) ==
    {<<"flashcard_decks", d>> : d \in {x \in DOMAIN flashcard_decks :
                                          flashcard_decks[x].module_id = m}}
    \cup {<<"quizzes", d>> : d \in {x \in DOMAIN quizzes : quizzes[x].module_id = m}}
    \cup {<<"video_chapters", d>> : d \in {x \in DOMAIN video_chapters :
                                             video_chapters[x].module_id = m}}

\* C27 as stated: after every completed call of the course and content
\* managers every flashcard deck, quiz and video chapter names a stored
\* module and every module a stored course; after a delete_module that
\* returned success nothing names the deleted module.
C27_AsStated ==
    /\ \A m \in DOMAIN modules : modules[m].course_id \in DOMAIN courses
    /\ \A m \in 1..(nextId.modules - 1) :
          ContentOfModule(m) # {} => m \in DOMAIN modules
    /\ (last.op = "delete_module" /\ last.ok) => ContentOfModule(last.args.id) = {}

\* C27, what the code keeps: after every completed call every module names a
\* stored course and every course a stored user; a content document loses
\* its module only in delete_module and delete_course of AxiomCourseManager,
\* which delete modules and leave every flashcard deck, quiz and video
\* chapter in the store.
C27_ModulesKeepCourses ==
    /\ [](/\ \A m \in DOMAIN modules : modules[m].course_id \in DOMAIN courses
          /\ \A c \in DOMAIN courses : courses[c].user_id \in DOMAIN users)
    /\ [][\A m \in DOMAIN modules :
            (/\ m \notin DOMAIN modules'
             /\ \/ \E d \in DOMAIN flashcard_decks' : flashcard_decks'[d].module_id = m
                \/ \E d \in DOMAIN quizzes' : quizzes'[d].module_id = m
                \/ \E d \in DOMAIN video_chapters' : video_chapters'[d].module_id = m)
            => /\ last'.op \in {"delete_module", "delete_course"}
               /\ last'.ok
               /\ UNCHANGED <<flashcard_decks, quizzes, video_chapters>>]_vars
    /\ [][(last'.op = "delete_module" /\ last'.ok /\ last' # last)
          => /\ modules' = Without(modules, {last'.args.id})
             /\ UNCHANGED <<flashcard_decks, quizzes, video_chapters>>]_vars

\* C27 witness: delete_module has returned success and a flashcard deck of
\* the deleted module is still in the store.
C27_Witness ==
    /\ last.op = "delete_module"
    /\ last.ok
    /\ last.args.id \notin DOMAIN modules
    /\ \E d \in DOMAIN flashcard_decks : flashcard_decks[d].module_id = last.args.id

---------------------------------------------------------------------------
(* A claim about the notes of a deleted account, checked under SpecNotes.  *)

\* C28 as stated: after delete_user_account has returned success no document
\* of any collection is owned by the deleted user: no course, and no note
\* whose user_id is that user.
C28_AsStated ==
    (last.op = "delete_user_account" /\ last.ok)
    => /\ \A c \in DOMAIN courses : courses[c].user_id # last.args.user_id
       /\ \A n \in DOMAIN notes : notes[n].user_id # last.args.user_id

\* C28, what the code does: a delete_user_account that returns success
\* removes the user, the user's courses and everything under them, and
\* leaves the collection notes as it was, the notes of the deleted user
\* included; notes change only by save_notes, which adds one.
C28_NotesOutliveAccount ==
    /\ [][(last'.op = "delete_user_account" /\ last'.ok /\ last' # last)
          => /\ last'.args.user_id \in DOMAIN users
             /\ last'.args.user_id \notin DOMAIN users'
             /\ \A c \in DOMAIN courses' : courses'[c].user_id # last'.args.user_id
             /\ ContentHasModules'
             /\ \A m \in DOMAIN modules' : modules'[m].course_id \in DOMAIN courses'
             /\ notes' = notes]_vars
    /\ [][notes' # notes
          => /\ last'.op = "save_notes"
             /\ notes' = Append(notes, notes'[Len(notes')])]_vars

\* C28 witness: the first account saved a note and then deleted itself;
\* the call returned success and the note is still stored under its id.
C28_Witness ==
    /\ last.op = "delete_user_account"
    /\ last.ok
    /\ last.args.user_id = 1
    /\ 1 \notin DOMAIN users
    /\ \E n \in DOMAIN notes : notes[n].user_id = 1

---------------------------------------------------------------------------
(* A claim about creating content while its module is deleted, checked     *)
(* under SpecCreateRace.                                                   *)

\* C29 as stated: once a content creation and a delete_course or
\* delete_user_account that ran side by side have both finished, every
\* flashcard deck, quiz and video chapter in the store has its module.
C29_AsStated ==
    (\A p \in Callers : calls[p] = Idle)
    => /\ \A d \in DOMAIN flashcard_decks : flashcard_decks[d].module_id \in DOMAIN modules
       /\ \A q \in DOMAIN quizzes : quizzes[q].module_id \in DOMAIN modules
       /\ \A v \in DOMAIN video_chapters : video_chapters[v].module_id \in DOMAIN modules

\* C29, what the code keeps: a content document comes to be without its
\* module in two kinds of step only: the insert of a creation whose check
\* saw the module and whose module has been deleted since, and the
\* delete_many on modules of a cascade, when a creation inserted into the
\* module after the cascade had deleted its content.  A creation that starts
\* after the module is gone is refused.
C29_OrphansOnlyByRace ==
    /\ [][(ContentHasModules /\ ~ContentHasModules')
          => \/ \E p \in Callers :
                   /\ calls[p].pc = "create_content_insert"
                   /\ calls'[p] = Idle
                   /\ calls[p].args.id \notin DOMAIN modules
             \/ \E p \in Callers :
                   /\ calls[p].pc = "modules"
                   /\ calls'[p].pc # "modules"]_vars
    /\ [][\A p \in Callers :
            (calls[p] = Idle /\ calls'[p].pc = "create_content_insert")
            => calls'[p].args.id \in DOMAIN modules]_vars

\* C29 witness: delete_user_account and a create_flashcard_deck have both
\* returned success, no call is under way, and the flashcard deck is in the
\* store with no module, no course and no user left.
C29_Witness ==
    /\ \A p \in Callers : calls[p] = Idle
    /\ last.op = "create_flashcard_deck"
    /\ last.ok
    /\ 1 \notin DOMAIN users
    /\ DOMAIN courses = {} /\ DOMAIN modules = {}
    /\ \E d \in DOMAIN flashcard_decks : flashcard_decks[d].module_id = 1

---------------------------------------------------------------------------
(* A claim about reset requests of deactivated accounts, checked under     *)
(* SpecTokens.                                                             *)

====
